---- MODULE Spec2Model ----
(***************************************************************************)
(* State-machine model of the OSINT collection and ingestion pipeline:     *)
(*   - the Telegram crawlers  execution/telegram_niemci_de4ru_osint.py     *)
(*     (main, search_channel) and execution/telegram_phone_number_search.py*)
(*     (main, search_channel_phones)           -> specification Spec       *)
(*   - the ingestor execution/ingest_elastic.py (normalizers,              *)
(*     ensure_index_exists, ingest_directory)  -> specification SpecIngest *)
(* Times are in tenths of a second.  Channels and queries are named by     *)
(* their position in the configured lists.                                 *)
(***************************************************************************)
EXTENDS Integers, Sequences, FiniteSets, TLC

VARIABLES
    \* ---- crawler state --------------------------------------------------
    script,             \* which crawler runs: "niemci" or "phones"
    pc,                 \* position of main / search_channel
    ci,                 \* index of the channel being processed
    qi,                 \* index of the query being issued
    channel_data,       \* the channel_data dict of the running search_channel
    seen_ids,           \* the seen_ids set of the running search_channel
    history_offset_id,  \* search_channel's history cursor
    history_batch,      \* search_channel's history page counter
    results_channels,   \* results["channels"], in insertion order
    summary,            \* the "Channel Status" lines printed by main
    prev_req,           \* the request before the last one on this channel
    last_req,           \* the last request issued on this channel
    elapsed,            \* time slept since the last request on this channel
    returned_by,        \* <<id, source>>: id was returned to this channel's search by source
    resolve_failed,     \* channels whose get_entity raised
    api_returned,       \* messages the API has returned so far in this run
    api_failures,       \* requests the API has failed so far in this run
    history_page,       \* history.messages of the last GetHistoryRequest on this channel
    classified,         \* ids classify_message / score_message was called on, this channel
    requests,           \* the requests search_channel has issued for this channel
    \* ---- ingestor state -------------------------------------------------
    ipc,                \* "idle", or "ready" when ingest_elastic.py can be run
    dir_files,          \* the .json files under reports/*/raw_data, in walk order
    run,                \* runs of ingest_elastic.py so far
    clock,              \* datetime.now()
    docs_to_index,      \* the bulk actions of the last run
    doc_file,           \* for each of them, the index of its file in dir_files
    indices_to_create,  \* the index names of the last run
    es_store,           \* Elasticsearch: <<index, _id>> -> stored _source
    es_mapping,         \* Elasticsearch: index -> how it was created
    es_created,         \* the index names es.indices.create has created, in order
    pre_store,          \* es_store as the last run's bulk call found it
    bulk,               \* the last run's helpers.bulk call and what it returned
    log,                \* what the last run logged
    success_total,      \* sum of the success counts helpers.bulk returned
    submitted,          \* every bulk action handed to helpers.bulk so far
    es_failures,        \* failures Elasticsearch has produced so far
    \* ---- scoring state --------------------------------------------------
    score_text,         \* the text handed to score_message / classify_message
    scoring,            \* what score_message returned for it
    classification,     \* what classify_message returned for it
    score_input,        \* the type of the argument: "str" or "None"
    score_outcome,      \* how the call of score_message ended
    classify_outcome,   \* how the call of classify_message ended
    \* ---- flat-list crawler state ----------------------------------------
    flat_script,        \* "extended" or "recruitment"
    dates_aware,        \* message.date carries a tzinfo
    fpc,                \* position of the channel loop
    fci,                \* index of the channel being processed
    fqi,                \* index of the query being issued
    channel_messages,   \* channel_messages of the channel being processed
    results_messages,   \* results["messages"]
    by_channel,         \* statistics.by_channel, in insertion order
    by_query,           \* statistics.by_query
    accessible_channels,    \* results["accessible_channels"]
    inaccessible_channels,  \* results["inaccessible_channels"]
    total_messages,     \* statistics.total_messages
    flat_returned,      \* <<channel, id, source>>: what the requests returned
    flat_api_events,     \* messages returned and requests failed so far
    \* ---- search_niemci_extended state -----------------------------------
    xpc,                \* position: "resolve", "history", "analyze", "failed"
    x_offset_id,        \* offset_id of the history loop
    x_all_messages,     \* all_messages
    x_page,             \* history.messages of the last answered request
    x_requests,         \* GetHistoryRequests issued
    x_api_events,       \* messages returned and requests failed so far
    \* ---- search_channel as a function of the query order -----------------
    opc,                \* "start" before the call, "done" after it
    o_answers,          \* query -> what the API answers to its SearchRequest
    o_history,          \* what the API answers to the GetHistoryRequest
    o_order,            \* queries, the list search_channel was called with
    o_messages          \* channel_data["messages"] when it returned

crawlVars == <<script, pc, ci, qi, channel_data, seen_ids, history_offset_id,
               history_batch, results_channels, summary, prev_req, last_req,
               elapsed, returned_by, resolve_failed, api_returned,
               api_failures, history_page, classified, requests>>
ingestVars == <<ipc, dir_files, run, clock, docs_to_index, doc_file,
                indices_to_create, es_store, es_mapping, es_created, pre_store,
                bulk, log, success_total, submitted, es_failures>>
scoreVars == <<score_text, scoring, classification, score_input,
               score_outcome, classify_outcome>>
flatVars == <<flat_script, dates_aware, fpc, fci, fqi, channel_messages,
              results_messages, by_channel, by_query, accessible_channels,
              inaccessible_channels, total_messages, flat_returned,
              flat_api_events>>
extVars == <<xpc, x_offset_id, x_all_messages, x_page, x_requests, x_api_events>>
orderVars == <<opc, o_answers, o_history, o_order, o_messages>>
vars == <<crawlVars, ingestVars, scoreVars, flatVars, extVars, orderVars>>

(***************************************************************************)
(* Bounds of the model.                                                    *)
(***************************************************************************)
NumChannels == 2
NumQueries == 2
MaxPageLen == 2
MaxApiEvents == 2
NumFiles == 2
MaxEsFailures == 1
MaxRuns == 2
MaxHistoryEvents == 4
MaxOrderMessages == 2

TARGET_CHANNELS == 1..NumChannels
ALL_QUERIES == 1..NumQueries

(***************************************************************************)
(* Program constants of the crawlers.                                      *)
(***************************************************************************)
QUERY_SLEEP == 5
FLOOD_SLEEP == 300
HISTORY_SLEEP == 3
CHANNEL_SLEEP == 10
HISTORY_CAP == 20
RED_FLAG_CAP == 10

\* the matched_query of a message the history scan found ("_history_scan");
\* the queries are 1..NumQueries
HISTORY_SCAN == 0

\* A text is the sequence of the words it holds; "kw in text_lower" is
\* membership of kw among them.  <<>> is the empty text.
Contains(text, kw) == \E i \in 1..Len(text) : text[i] = kw

\* the keywords of RED_FLAG_KEYWORDS written in ASCII
RED_FLAG_KEYWORDS ==
    {"lichterfelde", "hindenburgdamm", "teltowkanal", "goerzallee",
     "heizkraftwerk", "kraftwerk",
     "stromnetz", "110kv", "hochspannung", "cable bridge", "umspannwerk",
     "pfalzburger", "jpg recruitment", "itaar", "+44 77", "+44 78", "+44 73",
     "anastasia", "anatoliy", "elmira",
     "housing provided", "no german required",
     "strabag", "stratieka", "boran", "planmann"}
HISTORY_KEYWORDS == {"bau", "berlin"}

\* The messages a channel can return: id -> text and date, the date relative
\* to the window (-1 before SEARCH_START, 0 inside, 1 after SEARCH_END).
MESSAGES ==
    [id \in 1..5 |->
        CASE id = 1 -> [text |-> <<"strabag">>, date |-> 0]
          [] id = 2 -> [text |-> <<"hallo">>,   date |-> 0]
          [] id = 3 -> [text |-> <<>>,          date |-> 0]
          [] id = 4 -> [text |-> <<"bau">>,     date |-> -1]
          [] OTHER  -> [text |-> <<"bau">>,     date |-> 1]]
MsgIds == DOMAIN MESSAGES

SeqsUpTo(S, n) == UNION {[1..k -> S] : k \in 0..n}
Pages == SeqsUpTo(MsgIds, MaxPageLen)

\* the API answers with a page, within the run's budget of returned messages
\* and failed requests
ApiReturns(page) ==
    /\ page \in Pages
    /\ api_returned + api_failures + Len(page) <= MaxApiEvents
    /\ api_returned' = api_returned + Len(page)
    /\ UNCHANGED api_failures

\* the API fails the request, within the same budget
ApiFails ==
    /\ api_returned + api_failures < MaxApiEvents
    /\ api_failures' = api_failures + 1
    /\ UNCHANGED api_returned

\* The hint a flood-wait signal carries (0: none).
FloodHints == {0, 70}

compute_doc_id(channel, message_id) == <<"sha256", channel, ":", message_id>>

Cardinal(S) == Cardinality(S)
Min(a, b) == IF a < b THEN a ELSE b

classify_message(text) ==
    LET red_flags_found == {kw \in RED_FLAG_KEYWORDS : Contains(text, kw)}
    IN  [red_flags |-> red_flags_found,
         red_flag_score |-> Min(Cardinal(red_flags_found), RED_FLAG_CAP)]

\* the tables of score_message, the keywords written in ASCII
known_phones ==
    {"7881228865", "7777213139", "7387793670", "7459878923", "7908973686",
     "7494401874", "15777103445", "737884015", "88475588"}
high_entities ==
    {"jpg recruitment", "itaar", "pfalzburger", "jkbeautyinstitut",
     "jk_beauty", "bagratuni", "primaholding", "voxenergie", "sol-tech"}
person_names ==
    {"anastasia", "anatoliy", "elmira", "vukusic", "marijana fenster",
     "mario kovac"}
locations == {"lichterfelde", "stromnetz", "steglitz", "110kv"}
construction ==
    {"bauhelfer berlin", "scaffolder berlin", "strabag", "stratieka", "boran",
     "planmann"}

PHONE_SCORE == 5
ENTITY_SCORE == 3
PERSON_SCORE == 2
LOCATION_SCORE == 2
CONSTRUCTION_SCORE == 1
RELEVANCE_CAP == 20

\* the indicators score_message collects: <<table, keyword>>
indicators_of(text) ==
    {<<"KNOWN_PHONE", kw>> : kw \in {p \in known_phones : Contains(text, p)}}
    \cup {<<"ENTITY", kw>> : kw \in {p \in high_entities : Contains(text, p)}}
    \cup {<<"PERSON", kw>> : kw \in {p \in person_names : Contains(text, p)}}
    \cup {<<"LOCATION", kw>> : kw \in {p \in locations : Contains(text, p)}}
    \cup {<<"CONSTRUCTION", kw>> : kw \in {p \in construction : Contains(text, p)}}

\* the score score_message has added up before the cap
raw_score(text) ==
    PHONE_SCORE * Cardinal({p \in known_phones : Contains(text, p)})
    + ENTITY_SCORE * Cardinal({p \in high_entities : Contains(text, p)})
    + PERSON_SCORE * Cardinal({p \in person_names : Contains(text, p)})
    + LOCATION_SCORE * Cardinal({p \in locations : Contains(text, p)})
    + CONSTRUCTION_SCORE * Cardinal({p \in construction : Contains(text, p)})

\* score_message returning the score as added up
relevance_uncapped(score) == score

\* score_message: "relevance_score": min(score, 20)
relevance_score(score) == Min(score, RELEVANCE_CAP)

\* how score_message ends: text_lower is guarded by "if text", the
\* re.sub(r'\D', '', text) of the next statement takes text as it is
score_message_outcome(input) ==
    IF input = "None" THEN "TypeError" ELSE "returned"

\* how classify_message ends: it reads text through
\* "text.lower() if text else ''" only
classify_message_outcome(input) == "returned"

score_message(text) ==
    [relevance_score |-> relevance_score(raw_score(text)),
     indicators |-> indicators_of(text)]

message_data(channel, id, matched_query) ==
    [doc_id |-> compute_doc_id(channel, id),
     message_id |-> id,
     text |-> MESSAGES[id].text,
     matched_query |-> matched_query,
     red_flag_score |-> classify_message(MESSAGES[id].text).red_flag_score]

\* the message_data of search_channel_phones
phones_message_data(channel, id, matched_query) ==
    [doc_id |-> compute_doc_id(channel, id),
     message_id |-> id,
     text |-> MESSAGES[id].text,
     matched_query |-> matched_query,
     relevance_score |-> score_message(MESSAGES[id].text).relevance_score,
     indicators |-> score_message(MESSAGES[id].text).indicators]

InWindow(id) == MESSAGES[id].date = 0

\* query_admits without the seen_ids check
query_admits_unseen_unchecked(seen, id) ==
    /\ MESSAGES[id].text # <<>>
    /\ ~(MESSAGES[id].date < 0 \/ MESSAGES[id].date > 0)

\* niemci search_channel: does the query loop admit msg?
query_admits(seen, id) ==
    /\ id \notin seen
    /\ MESSAGES[id].text # <<>>
    /\ ~(MESSAGES[id].date < 0 \/ MESSAGES[id].date > 0)

\* search_channel_phones: does the query loop admit msg?
phones_query_admits(seen, id) ==
    /\ id \notin seen
    /\ MESSAGES[id].text # <<>>

RECURSIVE query_loop(_, _, _, _, _, _)
\* the "for msg in search_result.messages" loop of search_channel; calls are
\* the ids classify_message has been called on
query_loop(page, channel, query, seen, msgs, calls) ==
    IF page = <<>> THEN [seen |-> seen, messages |-> msgs, calls |-> calls]
    ELSE LET id == Head(page) IN
         IF query_admits(seen, id)
         THEN query_loop(Tail(page), channel, query, seen \cup {id},
                         Append(msgs, message_data(channel, id, query)),
                         Append(calls, id))
         ELSE query_loop(Tail(page), channel, query, seen, msgs, calls)

RECURSIVE phones_query_loop(_, _, _, _, _, _)
\* the "for msg in search_result.messages" loop of search_channel_phones;
\* calls are the ids score_message has been called on
phones_query_loop(page, channel, query, seen, msgs, calls) ==
    IF page = <<>> THEN [seen |-> seen, messages |-> msgs, calls |-> calls]
    ELSE LET id == Head(page) IN
         IF phones_query_admits(seen, id)
         THEN phones_query_loop(Tail(page), channel, query, seen \cup {id},
                                Append(msgs, phones_message_data(channel, id, query)),
                                Append(calls, id))
         ELSE phones_query_loop(Tail(page), channel, query, seen, msgs, calls)

\* a history scan that keeps every message
is_relevant_always(text) == TRUE

\* the history loop's is_relevant
is_relevant(text) ==
    \/ classify_message(text).red_flag_score > 0
    \/ \E kw \in HISTORY_KEYWORDS : Contains(text, kw)

\* the history loop's first two tests without the seen_ids one
history_skips_unseen_unchecked(seen, id) == MESSAGES[id].text = <<>>

\* the history loop's first two tests: msg.id in seen_ids, not msg.message
history_skips(seen, id) == id \in seen \/ MESSAGES[id].text = <<>>

\* a history loop that never finds a message older than the window
past_window_never(id) == FALSE

\* the history loop's "msg.date < SEARCH_START"
past_window(id) == MESSAGES[id].date < 0

RECURSIVE history_loop(_, _, _, _, _, _)
\* the "for msg in history.messages" loop of search_channel; offset is
\* history_offset_id, set to 0 by the loop's "signal to stop"
history_loop(page, channel, seen, msgs, offset, calls) ==
    IF page = <<>>
    THEN [seen |-> seen, messages |-> msgs, offset |-> offset, calls |-> calls]
    ELSE LET id == Head(page) IN
         IF history_skips(seen, id)
         THEN history_loop(Tail(page), channel, seen, msgs, offset, calls)
         ELSE IF past_window(id)
         THEN [seen |-> seen, messages |-> msgs, offset |-> 0, calls |-> calls]
         ELSE IF MESSAGES[id].date > 0
         THEN history_loop(Tail(page), channel, seen, msgs, offset, calls)
         ELSE history_loop(Tail(page), channel, seen \cup {id},
                  IF is_relevant(MESSAGES[id].text)
                  THEN Append(msgs, message_data(channel, id, HISTORY_SCAN))
                  ELSE msgs,
                  offset, Append(calls, id))

NoReq == [kind |-> "none", q |-> 0, outcome |-> "none", hint |-> 0, gap |-> -1]

\* a request issued now, after the given outcome of the API
Request(kind, q, outcome, hint) ==
    [kind |-> kind, q |-> q, outcome |-> outcome, hint |-> hint,
     gap |-> IF last_req.kind = "none" THEN -1 ELSE elapsed]

NewChannelData(channel) ==
    [channel |-> channel, status |-> "unknown", total_messages |-> 0,
     messages |-> <<>>, errors |-> <<>>]

\* what the return of search_channel leaves: the record is stored
finalize(cd) == [cd EXCEPT !.total_messages = Len(cd.messages)]

\* no helpers.bulk call yet
NoBulk == [called |-> FALSE, raised |-> FALSE, success |-> 0, errors |-> <<>>,
           bad |-> {}, outage |-> FALSE]

\* the ingestor's variables but ipc and dir_files, before the first run
IngestFresh ==
    /\ run = 0
    /\ clock = 1
    /\ docs_to_index = <<>>
    /\ doc_file = <<>>
    /\ indices_to_create = {}
    /\ es_store = <<>>
    /\ es_mapping = <<>>
    /\ es_created = <<>>
    /\ pre_store = <<>>
    /\ bulk = NoBulk
    /\ log = <<>>
    /\ success_total = 0
    /\ submitted = {}
    /\ es_failures = 0

IngestIdle == ipc = "idle" /\ dir_files = <<>> /\ IngestFresh

\* the crawlers are not running
CrawlIdle ==
    /\ script = "none"
    /\ pc = "done"
    /\ ci = 1
    /\ qi = 0
    /\ channel_data = NewChannelData(1)
    /\ seen_ids = {}
    /\ history_offset_id = 0
    /\ history_batch = 0
    /\ results_channels = <<>>
    /\ summary = <<>>
    /\ prev_req = NoReq
    /\ last_req = NoReq
    /\ elapsed = 0
    /\ returned_by = {}
    /\ resolve_failed = {}
    /\ api_returned = 0
    /\ api_failures = 0
    /\ history_page = <<>>
    /\ classified = <<>>
    /\ requests = <<>>

\* nothing is being scored
ScoreIdle ==
    /\ score_text = <<>>
    /\ scoring = score_message(<<>>)
    /\ classification = classify_message(<<>>)
    /\ score_input = "str"
    /\ score_outcome = "returned"
    /\ classify_outcome = "returned"

\* the flat-list crawlers are not running
FlatIdle ==
    /\ flat_script = "none"
    /\ dates_aware = FALSE
    /\ fpc = "done"
    /\ fci = 1
    /\ fqi = 0
    /\ channel_messages = <<>>
    /\ results_messages = <<>>
    /\ by_channel = <<>>
    /\ by_query = <<>>
    /\ accessible_channels = <<>>
    /\ inaccessible_channels = <<>>
    /\ total_messages = 0
    /\ flat_returned = {}
    /\ flat_api_events = 0

\* search_niemci_extended is not running
ExtIdle ==
    /\ xpc = "idle"
    /\ x_offset_id = 0
    /\ x_all_messages = <<>>
    /\ x_page = <<>>
    /\ x_requests = 0
    /\ x_api_events = 0

\* search_channel is not being run on a query order
OrderIdle ==
    /\ opc = "idle"
    /\ o_answers = <<>>
    /\ o_history = <<>>
    /\ o_order = <<>>
    /\ o_messages = <<>>

CrawlInit ==
    /\ script \in {"niemci", "phones"}
    /\ pc = "resolve"
    /\ ci = 1
    /\ qi = 0
    /\ channel_data = NewChannelData(1)
    /\ seen_ids = {}
    /\ history_offset_id = 0
    /\ history_batch = 0
    /\ results_channels = <<>>
    /\ summary = <<>>
    /\ prev_req = NoReq
    /\ last_req = NoReq
    /\ elapsed = 0
    /\ returned_by = {}
    /\ resolve_failed = {}
    /\ api_returned = 0
    /\ api_failures = 0
    /\ history_page = <<>>
    /\ classified = <<>>
    /\ requests = <<>>

\* a failed get_entity ending the run instead of the channel
resolve_failure_aborts == "done"

\* a failed get_entity tried again
resolve_failure_retries == "resolve"

\* the exception branch of get_entity: the channel is recorded and skipped
resolve_failure_next_pc == "channel_done"

\* a seen-set carried over from the channel before
kept_seen_ids(seen) == seen

\* "seen_ids = set()" at the start of every channel's search
new_seen_ids(seen) == {}

\* search_channel / search_channel_phones, lines up to "seen_ids = set()"
search_channel_resolve ==
    /\ pc = "resolve"
    /\ \E ok \in BOOLEAN :
        IF ok
        THEN /\ UNCHANGED <<api_returned, api_failures>>
             /\ channel_data' = [NewChannelData(ci) EXCEPT !.status = "accessible"]
             /\ seen_ids' = new_seen_ids(seen_ids)
             /\ qi' = 1
             /\ pc' = "query"
             /\ UNCHANGED <<results_channels, resolve_failed>>
        ELSE /\ ApiFails
             /\ channel_data' =
                    [NewChannelData(ci) EXCEPT
                        !.status = "inaccessible",
                        !.errors = IF script = "niemci"
                                   THEN <<"Cannot access channel">> ELSE <<>>]
             /\ results_channels' = Append(results_channels, channel_data')
             /\ resolve_failed' = resolve_failed \cup {ci}
             /\ pc' = resolve_failure_next_pc
             /\ UNCHANGED <<seen_ids, qi>>
    /\ prev_req' = NoReq
    /\ last_req' = NoReq
    /\ elapsed' = 0
    /\ returned_by' = {}
    /\ history_page' = <<>>
    /\ classified' = <<>>
    /\ requests' = Append(requests, <<"resolve", 0>>)
    /\ UNCHANGED <<script, ci, history_offset_id, history_batch, summary,
                   ingestVars, scoreVars, flatVars, extVars, orderVars>>

\* where the query loop goes after query q
AfterQuery(q, cd) ==
    IF q < NumQueries
    THEN /\ qi' = q + 1
         /\ pc' = "query"
         /\ channel_data' = cd
         /\ UNCHANGED results_channels
    ELSE IF script = "niemci"
    THEN /\ qi' = q
         /\ pc' = "history"
         /\ channel_data' = cd
         /\ UNCHANGED results_channels
    ELSE /\ qi' = q
         /\ pc' = "channel_done"
         /\ channel_data' = finalize(cd)
         /\ results_channels' = Append(results_channels, finalize(cd))

\* the sleep of the flood-wait branch of the query loop's except
flood_sleep(hint) == FLOOD_SLEEP

\* the sleep of the query loop's except branch when the error is no flood-wait
error_sleep == 0

\* one iteration of "for query in queries" of search_channel
search_channel_query ==
    /\ pc = "query"
    /\ script = "niemci"
    /\ \/ \E page \in Pages :
            LET r == query_loop(page, ci, qi, seen_ids, channel_data.messages,
                                classified) IN
            /\ ApiReturns(page)
            /\ seen_ids' = r.seen
            /\ classified' = r.calls
            /\ AfterQuery(qi, [channel_data EXCEPT !.messages = r.messages])
            /\ last_req' = Request("search", qi, "ok", 0)
            /\ elapsed' = QUERY_SLEEP
            /\ returned_by' = returned_by \cup
                    {<<page[i], qi>> : i \in 1..Len(page)}
       \/ \E hint \in FloodHints :
            /\ ApiFails
            /\ AfterQuery(qi, [channel_data EXCEPT
                                 !.errors = Append(@, <<"Query", qi>>)])
            /\ last_req' = Request("search", qi, "flood", hint)
            /\ elapsed' = flood_sleep(hint)
            /\ UNCHANGED <<seen_ids, returned_by, classified>>
       \/ /\ ApiFails
          /\ AfterQuery(qi, [channel_data EXCEPT
                                 !.errors = Append(@, <<"Query", qi>>)])
          /\ last_req' = Request("search", qi, "error", 0)
          /\ elapsed' = error_sleep
          /\ UNCHANGED <<seen_ids, returned_by, classified>>
    /\ prev_req' = last_req
    /\ requests' = Append(requests, <<"search", qi>>)
    /\ history_offset_id' = 0
    /\ history_batch' = 0
    /\ UNCHANGED <<script, ci, summary, resolve_failed, history_page,
                   ingestVars, scoreVars, flatVars, extVars, orderVars>>

\* one iteration of "for query in ALL_QUERIES" of search_channel_phones
search_channel_phones_query ==
    /\ pc = "query"
    /\ script = "phones"
    /\ \/ \E page \in Pages :
            LET r == phones_query_loop(page, ci, qi, seen_ids,
                                       channel_data.messages, classified) IN
            /\ ApiReturns(page)
            /\ seen_ids' = r.seen
            /\ classified' = r.calls
            /\ AfterQuery(qi, [channel_data EXCEPT !.messages = r.messages])
            /\ last_req' = Request("search", qi, "ok", 0)
            /\ elapsed' = QUERY_SLEEP
            /\ returned_by' = returned_by \cup
                    {<<page[i], qi>> : i \in 1..Len(page)}
       \/ \E hint \in FloodHints :
            /\ ApiFails
            /\ AfterQuery(qi, channel_data)
            /\ last_req' = Request("search", qi, "flood", hint)
            /\ elapsed' = flood_sleep(hint)
            /\ UNCHANGED <<seen_ids, returned_by, classified>>
       \/ /\ ApiFails
          /\ AfterQuery(qi, channel_data)
          /\ last_req' = Request("search", qi, "error", 0)
          /\ elapsed' = error_sleep
          /\ UNCHANGED <<seen_ids, returned_by, classified>>
    /\ prev_req' = last_req
    /\ requests' = Append(requests, <<"search", qi>>)
    /\ UNCHANGED <<script, ci, history_offset_id, history_batch, summary,
                   resolve_failed, history_page, ingestVars, scoreVars, flatVars,
                   extVars, orderVars>>

\* the channel's record is finalized and stored: the tail of search_channel
HistoryReturn(cd) ==
    /\ pc' = "channel_done"
    /\ channel_data' = finalize(cd)
    /\ results_channels' = Append(results_channels, finalize(cd))

\* one iteration of the "while True" history loop of search_channel
search_channel_history ==
    /\ pc = "history"
    /\ script = "niemci"
    /\ \/ \E page \in Pages :
            LET r == history_loop(page, ci, seen_ids, channel_data.messages,
                                  history_offset_id, classified)
                cd == [channel_data EXCEPT !.messages = r.messages]
            IN
            /\ ApiReturns(page)
            /\ returned_by' = returned_by \cup
                    {<<page[i], HISTORY_SCAN>> : i \in 1..Len(page)}
            /\ last_req' = Request("history", 0, "ok", 0)
            /\ history_page' = page
            /\ IF page = <<>>
               THEN /\ HistoryReturn(channel_data)
                    /\ elapsed' = 0
                    /\ UNCHANGED <<seen_ids, history_offset_id, history_batch,
                                   classified>>
               ELSE /\ seen_ids' = r.seen
                    /\ classified' = r.calls
                    /\ history_batch' = history_batch + 1
                    /\ IF r.offset = 0
                       THEN /\ HistoryReturn(cd)
                            /\ history_offset_id' = 0
                            /\ elapsed' = 0
                       ELSE /\ history_offset_id' = page[Len(page)]
                            /\ IF history_batch + 1 >= HISTORY_CAP
                               THEN /\ HistoryReturn(cd)
                                    /\ elapsed' = 0
                               ELSE /\ pc' = "history"
                                    /\ channel_data' = cd
                                    /\ elapsed' = HISTORY_SLEEP
                                    /\ UNCHANGED results_channels
       \/ /\ ApiFails
          /\ last_req' = Request("history", 0, "error", 0)
          /\ HistoryReturn([channel_data EXCEPT
                              !.errors = Append(@, <<"History scan">>)])
          /\ elapsed' = 0
          /\ UNCHANGED <<seen_ids, history_offset_id, history_batch,
                         returned_by, history_page, classified>>
    /\ prev_req' = last_req
    /\ requests' = Append(requests, <<"history", 0>>)
    /\ UNCHANGED <<script, ci, qi, summary, resolve_failed, ingestVars, scoreVars, flatVars,
                   extVars, orderVars>>

\* the "Channel Status" lines of main's summary
channel_status_lines ==
    [i \in 1..Len(results_channels) |->
        [channel |-> results_channels[i].channel,
         status |-> results_channels[i].status,
         total |-> results_channels[i].total_messages]]

\* main: after search_channel returns, the inter-channel sleep and the next
\* channel; after the last one, the aggregation
main_next_channel ==
    /\ pc = "channel_done"
    /\ IF ci < NumChannels
       THEN /\ ci' = ci + 1
            /\ pc' = "resolve"
            /\ requests' = <<>>
       ELSE /\ pc' = "save"
            /\ UNCHANGED <<ci, requests>>
    /\ UNCHANGED summary
    /\ elapsed' = elapsed + CHANNEL_SLEEP
    /\ UNCHANGED <<script, qi, channel_data, seen_ids, history_offset_id,
                   history_batch, results_channels, prev_req, last_req,
                   returned_by, resolve_failed, api_returned, api_failures,
                   history_page, classified, ingestVars, scoreVars, flatVars,
                   extVars, orderVars>>

\* main: the two result files are written, then the summary is printed; an
\* error of makedirs, open or json.dump is not caught and ends main
main_save_results ==
    /\ pc = "save"
    /\ \E written \in BOOLEAN :
         IF written
         THEN /\ pc' = "done"
              /\ summary' = channel_status_lines
         ELSE /\ pc' = "failed"
              /\ UNCHANGED summary
    /\ UNCHANGED <<script, ci, qi, channel_data, seen_ids, history_offset_id,
                   history_batch, results_channels, prev_req, last_req, elapsed,
                   returned_by, resolve_failed, api_returned, api_failures,
                   history_page, classified, requests, ingestVars, scoreVars,
                   flatVars, extVars, orderVars>>

Init == CrawlInit /\ IngestIdle /\ ScoreIdle /\ FlatIdle /\ ExtIdle /\ OrderIdle

Next ==
    \/ search_channel_resolve
    \/ search_channel_query
    \/ search_channel_phones_query
    \/ search_channel_history
    \/ main_next_channel
    \/ main_save_results

Spec == Init /\ [][Next]_vars

(***************************************************************************)
(* The crawlers that keep one flat list results["messages"]:               *)
(* extended_telegram_search of telegram_extended_recruitment_berlin_2025   *)
(* and search_telegram_recruitment of telegram_recruitment_osint_2h2025.   *)
(* Channels and queries are 1..NumChannels and 1..NumQueries in configured *)
(* order; the messages are MESSAGES.                                       *)
(***************************************************************************)
\* a page of a request: no message twice
FlatPages ==
    {p \in Pages : \A i, j \in 1..Len(p) : i # j => p[i] # p[j]}

\* message_data: the entries the statistics and the export read
flat_message_data(channel, id, query) ==
    [channel |-> channel, message_id |-> id, text |-> MESSAGES[id].text,
     query |-> query]

\* "message.date >= SEARCH_START_DATE": the window bounds are naive
\* datetimes, the comparison raises TypeError on a date that carries a tzinfo
date_compare_raises(page) == dates_aware /\ page # <<>>

\* extended_telegram_search: (channel_username, message.id) not in existing_ids
not_in_existing_ids(msgs, channel, id) ==
    \A i \in 1..Len(msgs) :
        ~(msgs[i].channel = channel /\ msgs[i].message_id = id)

RECURSIVE extended_history_loop(_, _, _, _)
\* extended_telegram_search: "for message in history.messages"
extended_history_loop(page, channel, msgs, all) ==
    IF page = <<>> THEN [channel_messages |-> msgs, messages |-> all]
    ELSE LET id == Head(page) IN
         IF InWindow(id)
         THEN extended_history_loop(Tail(page), channel,
                  Append(msgs, flat_message_data(channel, id, HISTORY_SCAN)),
                  Append(all, flat_message_data(channel, id, HISTORY_SCAN)))
         ELSE extended_history_loop(Tail(page), channel, msgs, all)

RECURSIVE extended_query_loop(_, _, _, _, _)
\* extended_telegram_search: "for message in result.messages"
extended_query_loop(page, channel, query, msgs, all) ==
    IF page = <<>> THEN [channel_messages |-> msgs, messages |-> all]
    ELSE LET id == Head(page) IN
         IF InWindow(id) /\ not_in_existing_ids(msgs, channel, id)
         THEN extended_query_loop(Tail(page), channel, query,
                  Append(msgs, flat_message_data(channel, id, query)),
                  Append(all, flat_message_data(channel, id, query)))
         ELSE extended_query_loop(Tail(page), channel, query, msgs, all)

RECURSIVE recruitment_query_loop(_, _, _, _, _)
\* search_telegram_recruitment: "for message in result.messages"
recruitment_query_loop(page, channel, query, msgs, all) ==
    IF page = <<>> THEN [channel_messages |-> msgs, messages |-> all]
    ELSE LET id == Head(page) IN
         IF InWindow(id)
         THEN recruitment_query_loop(Tail(page), channel, query,
                  Append(msgs, flat_message_data(channel, id, query)),
                  Append(all, flat_message_data(channel, id, query)))
         ELSE recruitment_query_loop(Tail(page), channel, query, msgs, all)

\* query_count: the messages of the page inside the window
query_count(page) == Cardinality({i \in 1..Len(page) : InWindow(page[i])})

\* by_query[query] = by_query.get(query, 0) + count
by_query_add(bq, query, count) ==
    [q \in DOMAIN bq \cup {query} |->
        (IF q \in DOMAIN bq THEN bq[q] ELSE 0) + (IF q = query THEN count ELSE 0)]

FlatInit ==
    /\ flat_script \in {"extended", "recruitment"}
    /\ dates_aware \in BOOLEAN
    /\ fpc = "resolve"
    /\ fci = 1
    /\ fqi = 0
    /\ channel_messages = <<>>
    /\ results_messages = <<>>
    /\ by_channel = <<>>
    /\ by_query = <<>>
    /\ accessible_channels = <<>>
    /\ inaccessible_channels = <<>>
    /\ total_messages = 0
    /\ flat_returned = {}
    /\ flat_api_events = 0

\* the channel loop goes to the next channel; after the last one
\* total_messages is set
flat_next_channel(all) ==
    IF fci < NumChannels
    THEN /\ fci' = fci + 1
         /\ fpc' = "resolve"
         /\ UNCHANGED total_messages
    ELSE /\ fpc' = "done"
         /\ total_messages' = Len(all)
         /\ UNCHANGED fci

\* client.get_entity(channel_username) and, when it raises, the outer except
flat_get_entity ==
    /\ fpc = "resolve"
    /\ \/ /\ channel_messages' = <<>>
          /\ fqi' = 1
          /\ fpc' = IF flat_script = "extended" THEN "history" ELSE "query"
          /\ UNCHANGED <<fci, by_channel, inaccessible_channels,
                         total_messages, flat_api_events>>
       \/ /\ flat_api_events < MaxApiEvents
          /\ flat_api_events' = flat_api_events + 1
          /\ by_channel' = Append(by_channel, [channel |-> fci, count |-> 0])
          /\ inaccessible_channels' =
                IF flat_script = "extended"
                THEN Append(inaccessible_channels, fci)
                ELSE inaccessible_channels
          /\ flat_next_channel(results_messages)
          /\ UNCHANGED <<fqi, channel_messages>>
    /\ UNCHANGED <<flat_script, dates_aware, results_messages, by_query,
                   accessible_channels, flat_returned, crawlVars, ingestVars,
                   scoreVars, extVars, orderVars>>

\* extended_telegram_search: the history scan, which comes before the queries
extended_history_scan ==
    /\ fpc = "history"
    /\ \/ \E page \in FlatPages :
            /\ flat_api_events + Len(page) <= MaxApiEvents
            /\ flat_api_events' = flat_api_events + Len(page)
            /\ flat_returned' = flat_returned \cup
                   {<<fci, page[i], HISTORY_SCAN>> : i \in 1..Len(page)}
            /\ IF date_compare_raises(page)
               THEN UNCHANGED <<channel_messages, results_messages>>
               ELSE \E r \in {extended_history_loop(page, fci, channel_messages,
                                                     results_messages)} :
                       /\ channel_messages' = r.channel_messages
                       /\ results_messages' = r.messages
       \/ /\ flat_api_events < MaxApiEvents
          /\ flat_api_events' = flat_api_events + 1
          /\ UNCHANGED <<flat_returned, channel_messages, results_messages>>
    /\ fpc' = "query"
    /\ UNCHANGED <<flat_script, dates_aware, fci, fqi, by_channel, by_query,
                   accessible_channels, inaccessible_channels, total_messages,
                   crawlVars, ingestVars, scoreVars, extVars, orderVars>>

\* what follows a query: the next query, or the channel's statistics and the
\* next channel
flat_after_query(msgs, all) ==
    /\ channel_messages' = msgs
    /\ results_messages' = all
    /\ IF fqi < NumQueries
       THEN /\ fqi' = fqi + 1
            /\ UNCHANGED <<fpc, fci, by_channel, accessible_channels,
                           total_messages>>
       ELSE /\ by_channel' = Append(by_channel,
                                    [channel |-> fci, count |-> Len(msgs)])
            /\ accessible_channels' =
                  IF flat_script = "extended"
                  THEN Append(accessible_channels,
                              [username |-> fci, message_count |-> Len(msgs)])
                  ELSE accessible_channels
            /\ flat_next_channel(all)
            /\ UNCHANGED fqi

\* one SearchRequest of the query loop, of either script
flat_search_query ==
    /\ fpc = "query"
    /\ \/ \E page \in FlatPages :
            /\ flat_api_events + Len(page) <= MaxApiEvents
            /\ flat_api_events' = flat_api_events + Len(page)
            /\ flat_returned' = flat_returned \cup
                   {<<fci, page[i], fqi>> : i \in 1..Len(page)}
            /\ IF date_compare_raises(page)
               THEN /\ flat_after_query(channel_messages, results_messages)
                    /\ UNCHANGED by_query
               ELSE \E r \in {IF flat_script = "extended"
                              THEN extended_query_loop(page, fci, fqi,
                                       channel_messages, results_messages)
                              ELSE recruitment_query_loop(page, fci, fqi,
                                       channel_messages, results_messages)} :
                       /\ flat_after_query(r.channel_messages, r.messages)
                       /\ by_query' = by_query_add(by_query, fqi, query_count(page))
       \/ /\ flat_api_events < MaxApiEvents
          /\ flat_api_events' = flat_api_events + 1
          /\ flat_after_query(channel_messages, results_messages)
          /\ UNCHANGED <<flat_returned, by_query>>
    /\ UNCHANGED <<flat_script, dates_aware, inaccessible_channels, crawlVars,
                   ingestVars, scoreVars, extVars, orderVars>>

InitFlat == CrawlIdle /\ IngestIdle /\ ScoreIdle /\ FlatInit /\ ExtIdle /\ OrderIdle

NextFlat ==
    \/ flat_get_entity
    \/ extended_history_scan
    \/ flat_search_query

SpecFlat == InitFlat /\ [][NextFlat]_vars

(***************************************************************************)
(* search_niemci_extended of telegram_niemci_extended_search.py: one       *)
(* channel, whose history is read page by page before the messages are     *)
(* analysed. A page of MaxPageLen messages stands for a page of limit=100.  *)
(***************************************************************************)
\* "for msg in history.messages: if SEARCH_START_DATE <= msg.date <= SEARCH_END_DATE"
in_window_of(page) == SelectSeq(page, InWindow)

\* "if len(history.messages) < 100: break"
history_page_short(page) == Len(page) < MaxPageLen

ExtInit ==
    /\ xpc = "resolve"
    /\ x_offset_id = 0
    /\ x_all_messages = <<>>
    /\ x_page = <<>>
    /\ x_requests = 0
    /\ x_api_events = 0

\* client.get_entity(TARGET_CHANNEL), inside the outer try
niemci_extended_get_entity ==
    /\ xpc = "resolve"
    /\ \/ /\ xpc' = "history"
          /\ UNCHANGED x_api_events
       \/ /\ x_api_events < MaxHistoryEvents
          /\ x_api_events' = x_api_events + 1
          /\ xpc' = "failed"
    /\ UNCHANGED <<x_offset_id, x_all_messages, x_page, x_requests, crawlVars,
                   ingestVars, scoreVars, flatVars, orderVars>>

\* one turn of "while True": a GetHistoryRequest and what follows it
niemci_extended_history ==
    /\ xpc = "history"
    /\ x_requests' = x_requests + 1
    /\ \/ \E page \in FlatPages :
            /\ x_api_events + Len(page) <= MaxHistoryEvents
            /\ x_api_events' = x_api_events + Len(page)
            /\ x_page' = page
            /\ IF page = <<>>
               THEN /\ xpc' = "analyze"
                    /\ UNCHANGED <<x_all_messages, x_offset_id>>
               ELSE /\ x_all_messages' = x_all_messages \o in_window_of(page)
                    /\ IF history_page_short(page)
                       THEN /\ xpc' = "analyze"
                            /\ UNCHANGED x_offset_id
                       ELSE /\ xpc' = "history"
                            /\ x_offset_id' = page[Len(page)]
       \/ /\ x_api_events < MaxHistoryEvents
          /\ x_api_events' = x_api_events + 1
          /\ xpc' = "analyze"
          /\ x_page' = <<>>
          /\ UNCHANGED <<x_all_messages, x_offset_id>>
    /\ UNCHANGED <<crawlVars, ingestVars, scoreVars, flatVars, orderVars>>

InitExt == CrawlIdle /\ IngestIdle /\ ScoreIdle /\ FlatIdle /\ ExtInit /\ OrderIdle

NextExt ==
    \/ niemci_extended_get_entity
    \/ niemci_extended_history

SpecExt == InitExt /\ [][NextExt]_vars

(***************************************************************************)
(* search_channel of telegram_niemci_de4ru_osint.py as a function of the   *)
(* list of queries it is called with, the API's answers being fixed: one   *)
(* answer per query and one to the history request.                        *)
(***************************************************************************)
\* what the API answers to one request: a page, or an exception
Answers(budget) ==
    {[ok |-> TRUE, messages |-> p] : p \in {pp \in FlatPages : Len(pp) <= budget}}
        \cup {[ok |-> FALSE, messages |-> <<>>]}

RECURSIVE AnswerVectors(_, _)
\* n answers returning at most budget messages together
AnswerVectors(n, budget) ==
    IF n = 0 THEN {<<>>}
    ELSE UNION {{<<a>> \o rest :
                    rest \in AnswerVectors(n - 1, budget - Len(a.messages))} :
                a \in Answers(budget)}

\* the orders the configured queries can be listed in
Orders ==
    {o \in [1..NumQueries -> ALL_QUERIES] :
        \A i, j \in 1..NumQueries : i # j => o[i] # o[j]}

\* a query loop that an exception ends
after_query_error_breaks(rest) == <<>>

\* the "continue" of the query loop's except branch: the queries left
after_query_error(rest) == rest

RECURSIVE query_pass(_, _, _, _, _)
\* "for query in queries" of search_channel
query_pass(order, answers, channel, seen, msgs) ==
    IF order = <<>> THEN [seen |-> seen, messages |-> msgs]
    ELSE LET query == Head(order) IN
         IF ~answers[query].ok
         THEN query_pass(after_query_error(Tail(order)), answers, channel,
                         seen, msgs)
         ELSE LET r == query_loop(answers[query].messages, channel, query,
                                  seen, msgs, <<>>)
              IN query_pass(Tail(order), answers, channel, r.seen, r.messages)

\* channel_data["messages"] when search_channel returns: the query loop, then
\* the history scan, which returns after its first page (its cursor is still
\* 0 at the end-of-page test)
search_channel_messages(order, answers, history, channel) ==
    LET q == query_pass(order, answers, channel, new_seen_ids({}), <<>>) IN
    IF ~history.ok \/ history.messages = <<>> THEN q.messages
    ELSE history_loop(history.messages, channel, q.seen, q.messages, 0,
                      <<>>).messages

OrderInit ==
    /\ opc = "start"
    /\ \E v \in AnswerVectors(NumQueries + 1, MaxOrderMessages) :
          /\ o_answers = SubSeq(v, 1, NumQueries)
          /\ o_history = v[NumQueries + 1]
    /\ o_order = <<>>
    /\ o_messages = <<>>

\* search_channel called with the queries in some order
search_channel_in_order ==
    /\ opc = "start"
    /\ \E order \in Orders :
          /\ o_order' = order
          /\ o_messages' = search_channel_messages(order, o_answers, o_history, 1)
    /\ opc' = "done"
    /\ UNCHANGED <<o_answers, o_history, crawlVars, ingestVars, scoreVars,
                   flatVars, extVars>>

InitOrder ==
    CrawlIdle /\ IngestIdle /\ ScoreIdle /\ FlatIdle /\ ExtIdle /\ OrderInit

NextOrder == search_channel_in_order

SpecOrder == InitOrder /\ [][NextOrder]_vars

(***************************************************************************)
(* The scoring functions on their own: score_message of                    *)
(* telegram_phone_number_search and classify_message of                    *)
(* telegram_niemci_de4ru_osint, applied to texts that grow and shrink by   *)
(* one word.                                                               *)
(***************************************************************************)
MaxWords == 12

\* the words the texts are made of, in the order they stand in a text
VOCABULARY ==
    <<"itaar", "pfalzburger", "anastasia", "anatoliy", "elmira",
      "lichterfelde", "stromnetz", "110kv", "strabag", "stratieka", "boran",
      "planmann", "7881228865", "hallo">>

\* the text made of the words of VOCABULARY at the positions in S
TextOf(S) ==
    LET F[i \in 0..Len(VOCABULARY)] ==
            IF i = 0 THEN <<>>
            ELSE IF i \in S THEN Append(F[i - 1], VOCABULARY[i]) ELSE F[i - 1]
    IN  F[Len(VOCABULARY)]

WordsOf(text) == {i \in 1..Len(VOCABULARY) : Contains(text, VOCABULARY[i])}

\* both functions are applied to text
Scored(text) ==
    /\ score_text' = text
    /\ scoring' = score_message(text)
    /\ classification' = classify_message(text)
    /\ score_input' = "str"
    /\ score_outcome' = score_message_outcome("str")
    /\ classify_outcome' = classify_message_outcome("str")
    /\ UNCHANGED <<crawlVars, ingestVars, flatVars, extVars, orderVars>>

\* a text with one more word is scored
score_longer_text ==
    /\ Len(score_text) < MaxWords
    /\ \E i \in 1..Len(VOCABULARY) \ WordsOf(score_text) :
         Scored(TextOf(WordsOf(score_text) \cup {i}))

\* a text with one word less is scored
score_shorter_text ==
    \E i \in WordsOf(score_text) : Scored(TextOf(WordsOf(score_text) \ {i}))

\* both functions are applied to None, the text of a message without one:
\* classify_message classifies the empty text, score_message returns nothing
score_none_text ==
    /\ score_input = "str"
    /\ score_input' = "None"
    /\ score_text' = <<>>
    /\ score_outcome' = score_message_outcome("None")
    /\ classify_outcome' = classify_message_outcome("None")
    /\ classification' = classify_message(<<>>)
    /\ UNCHANGED <<scoring, crawlVars, ingestVars, flatVars, extVars, orderVars>>

InitScore == CrawlIdle /\ IngestIdle /\ ScoreIdle /\ FlatIdle /\ ExtIdle /\ OrderIdle

NextScore ==
    \/ score_longer_text
    \/ score_shorter_text
    \/ score_none_text

SpecScore == InitScore /\ [][NextScore]_vars

(***************************************************************************)
(* The ingestor, execution/ingest_elastic.py.                              *)
(*                                                                         *)
(* A JSON value is a record tagged by its Python type after json.load:     *)
(* "null", "bool", "num", "str", "list" (items: a sequence) or "obj"       *)
(* (f: a function from its keys to values).                                *)
(***************************************************************************)
JNull == [t |-> "null"]
JBool(b) == [t |-> "bool", b |-> b]
JNum(n) == [t |-> "num", n |-> n]
JStr(s) == [t |-> "str", s |-> s]
JList(items) == [t |-> "list", items |-> items]
JObj(f) == [t |-> "obj", f |-> f]
EmptyObj == JObj(<<>>)
EmptyList == JList(<<>>)
EmptyStr == JStr("")
\* a field the document dict does not have
Absent == [t |-> "absent"]
\* a file whose content json.load rejects
Malformed == [t |-> "malformed"]
\* the string json.dumps(v, indent=2) returns
Text(tokens) == [t |-> "text", tokens |-> tokens]

\* isinstance(v, dict), isinstance(v, list)
IsDict(v) == v.t = "obj"
IsList(v) == v.t = "list"

\* every key the payloads use, in the order sorted() gives them
KeyOrder ==
    <<"articles", "channel", "channels_searched", "critical_assessments", "id",
      "investigation_phases", "link", "message", "message_id", "messages",
      "organic_results", "q", "query", "results", "search_parameters",
      "search_queries", "text", "title", "url">>

SortedKeys(f) == SelectSeq(KeyOrder, LAMBDA k : k \in DOMAIN f)

\* d.get(k, default) on a dict d
PyGet(d, k, default) == IF k \in DOMAIN d.f THEN d.f[k] ELSE default

\* "for x in v" can run: lists, strings and dicts iterate, the rest raises
Iterable(v) == v.t \in {"list", "str", "obj"}

\* what "for x in v" yields: a dict yields its keys, a string its characters
\* (the model's non-empty strings stand for one character)
Iter(v) ==
    CASE v.t = "list" -> v.items
      [] v.t = "obj" -> [i \in 1..Len(SortedKeys(v.f)) |-> JStr(SortedKeys(v.f)[i])]
      [] v.t = "str" -> IF v.s = "" THEN <<>> ELSE <<v>>
      [] OTHER -> <<>>

\* "k in v" can be evaluated: on numbers, booleans and None it raises TypeError
InDefined(v) == v.t \in {"list", "str", "obj"}

\* k in v for a string k: key of a dict, element of a list, substring of a
\* string (the model's strings hold no key as a proper substring)
PyIn(k, v) ==
    CASE v.t = "obj" -> k \in DOMAIN v.f
      [] v.t = "list" -> \E i \in 1..Len(v.items) : v.items[i] = JStr(k)
      [] v.t = "str" -> v.s = k
      [] OTHER -> FALSE

\* bool(v)
Truthy(v) ==
    CASE v.t = "null" -> FALSE
      [] v.t = "bool" -> v.b
      [] v.t = "num" -> v.n # 0
      [] v.t = "str" -> v.s # ""
      [] v.t = "list" -> v.items # <<>>
      [] OTHER -> DOMAIN v.f # {}

\* len(v) can be evaluated
HasLen(v) == v.t \in {"list", "str", "obj"}

Tok(s) == [t |-> "tok", s |-> s]

RECURSIVE json_dumps(_)
RECURSIVE dumps_items(_)
RECURSIVE dumps_fields(_, _)
\* json.dumps(v, sort_keys=True) as the sequence of its tokens
json_dumps(v) ==
    CASE v.t = "list" -> <<Tok("[")>> \o dumps_items(v.items) \o <<Tok("]")>>
      [] v.t = "obj" -> <<Tok("{")>> \o dumps_fields(v.f, SortedKeys(v.f)) \o <<Tok("}")>>
      [] OTHER -> <<v>>
dumps_items(items) ==
    IF items = <<>> THEN <<>>
    ELSE IF Len(items) = 1 THEN json_dumps(Head(items))
    ELSE json_dumps(Head(items)) \o <<Tok(",")>> \o dumps_items(Tail(items))
dumps_fields(f, keys) ==
    IF keys = <<>> THEN <<>>
    ELSE <<JStr(Head(keys)), Tok(":")>> \o json_dumps(f[Head(keys)])
         \o (IF Len(keys) = 1 THEN <<>> ELSE <<Tok(",")>>)
         \o dumps_fields(f, Tail(keys))

\* hashlib.sha256(content_str).hexdigest(): a digest is determined by, and
\* (no collisions) determines, the hashed string
generate_doc_id(content_str) == <<Tok("sha256")>> \o content_str

\* the outcome of a normalizer: the documents it returns, or the exception
\* it raises
Returns(docs) == [exc |-> "", docs |-> docs]
Raises(exc) == [exc |-> exc, docs |-> <<>>]

\* a Document whose id is computed from the record and the file it came from
Doc_id_with_file(now, filename, source_type, data_type, body, url, raw, report_id) ==
    [timestamp |-> now, source_file |-> filename, source_type |-> source_type,
     data_type |-> data_type, body |-> body, url |-> url, raw_source |-> raw,
     report_id |-> report_id,
     _id |-> generate_doc_id(json_dumps(raw) \o <<[t |-> "path", p |-> filename]>>)]

\* the part of a Document the normalizers share; the remaining fields are
\* further .get lookups on the same record
Doc(now, filename, source_type, data_type, body, url, raw, report_id) ==
    [timestamp |-> now, source_file |-> filename, source_type |-> source_type,
     data_type |-> data_type, body |-> body, url |-> url, raw_source |-> raw,
     report_id |-> report_id, _id |-> generate_doc_id(json_dumps(raw))]

\* "for idx, x in enumerate(v): doc = {... x.get(...) ...}": the elements the
\* loop runs over, TypeError when v does not iterate, AttributeError when an
\* element has no .get
Loop(v) ==
    IF ~Iterable(v) THEN Raises("TypeError")
    ELSE IF \E i \in 1..Len(Iter(v)) : ~IsDict(Iter(v)[i]) THEN Raises("AttributeError")
    ELSE Returns(Iter(v))

\* two loops of a normalizer, one after the other
Then(a, b) ==
    IF a.exc # "" THEN a ELSE IF b.exc # "" THEN b ELSE Returns(a.docs \o b.docs)

normalize_serp_api_data(raw_doc, filename, report_id, now) ==
    IF ~IsDict(PyGet(raw_doc, "search_parameters", EmptyObj))
    THEN Raises("AttributeError")
    ELSE
    LET organic(result) ==
            Doc(now, filename, "serp_api", "organic_result",
                PyGet(result, "snippet", EmptyStr), PyGet(result, "link", EmptyStr),
                result, report_id)
        question(q) ==
            Doc(now, filename, "serp_api", "related_question",
                PyGet(q, "snippet", EmptyStr), PyGet(q, "link", EmptyStr),
                q, report_id)
        search(x) ==
            Doc(now, filename, "serp_api", "related_search",
                Absent, PyGet(x, "link", EmptyStr), x, report_id)
        results == Loop(PyGet(raw_doc, "organic_results", EmptyList))
        questions == Loop(PyGet(raw_doc, "related_questions", EmptyList))
        searches == Loop(PyGet(raw_doc, "related_searches", EmptyList))
    IN Then([results EXCEPT !.docs = [i \in 1..Len(@) |-> organic(@[i])]],
       Then([questions EXCEPT !.docs = [i \in 1..Len(@) |-> question(@[i])]],
            [searches EXCEPT !.docs = [i \in 1..Len(@) |-> search(@[i])]]))

\* f"telegram://channel/{channel}/{id}"
telegram_url(channel, id) == [t |-> "url", channel |-> channel, id |-> id]

normalize_telegram_osint_data(raw_doc, filename, report_id, now) ==
    LET search_queries == PyGet(raw_doc, "search_queries", EmptyList)
        channels_searched == PyGet(raw_doc, "channels_searched", EmptyList)
        messages == PyGet(raw_doc, "messages", EmptyList)
        msgdoc(message) ==
            Doc(now, filename, "telegram", "message",
                PyGet(message, "message", EmptyStr),
                telegram_url(PyGet(message, "channel", JStr("unknown")),
                             PyGet(message, "id", JStr("unknown"))),
                message, report_id)
        summary_doc ==
            IF ~HasLen(channels_searched) \/ ~HasLen(search_queries)
            THEN Raises("TypeError")
            ELSE Returns(<<Doc(now, filename, "telegram", "search_summary",
                               JStr("No messages found."), Absent,
                               raw_doc, report_id)>>)
    IN Then([Loop(messages) EXCEPT !.docs = [i \in 1..Len(@) |-> msgdoc(@[i])]],
            IF ~Truthy(messages) THEN summary_doc ELSE Returns(<<>>))

normalize_comprehensive_report(raw_doc, filename, report_id, now) ==
    Returns(<<Doc(now, filename, "osint_report", "comprehensive_report",
                  Text(json_dumps(PyGet(raw_doc, "critical_assessments", EmptyObj))),
                  Absent, raw_doc, report_id)>>)

\* the document of one item of the generic branch of normalize_document
generic_doc(item, filename, report_id, now) ==
    Doc(now, filename,
        IF PyIn("source", item) /\ PyIn("uri", item) THEN "news"
        ELSE IF PyIn("url", item) THEN "web" ELSE "unknown",
        IF PyIn("source", item) /\ PyIn("uri", item) THEN "article"
        ELSE IF PyIn("url", item) THEN "page" ELSE "unknown",
        PyGet(item, "body", PyGet(item, "content", EmptyStr)),
        PyGet(item, "url", PyGet(item, "link", EmptyStr)),
        item, report_id)

\* "for item in items" of normalize_document: "source" in item raises
\* TypeError on a number, boolean or None, item.get raises AttributeError
generic_items(items, filename, report_id, now) ==
    IF ~Iterable(items) THEN Raises("TypeError")
    ELSE IF \E i \in 1..Len(Iter(items)) : ~InDefined(Iter(items)[i])
    THEN Raises("TypeError")
    ELSE [Loop(items) EXCEPT
            !.docs = [i \in 1..Len(@) |-> generic_doc(@[i], filename, report_id, now)]]

\* normalize_document testing for the Telegram keys first
detect_telegram_first(raw_doc) ==
    IF IsDict(raw_doc) /\ (PyIn("search_queries", raw_doc)
                           \/ PyIn("channels_searched", raw_doc)) THEN "telegram"
    ELSE IF IsDict(raw_doc) /\ PyIn("search_parameters", raw_doc)
                            /\ PyIn("organic_results", raw_doc) THEN "serp_api"
    ELSE IF IsDict(raw_doc) /\ PyIn("investigation_phases", raw_doc)
                            /\ PyIn("critical_assessments", raw_doc) THEN "report"
    ELSE IF IsList(raw_doc) THEN "list"
    ELSE IF IsDict(raw_doc) /\ PyIn("articles", raw_doc)
    THEN IF ~InDefined(raw_doc.f["articles"]) THEN "raise"
         ELSE IF PyIn("results", raw_doc.f["articles"]) THEN "articles" ELSE "item"
    ELSE IF IsDict(raw_doc) THEN "item"
    ELSE "unknown"

\* the branch normalize_document takes
detect(raw_doc) ==
    IF IsDict(raw_doc) /\ PyIn("search_parameters", raw_doc)
                       /\ PyIn("organic_results", raw_doc) THEN "serp_api"
    ELSE IF IsDict(raw_doc) /\ (PyIn("search_queries", raw_doc)
                                \/ PyIn("channels_searched", raw_doc)) THEN "telegram"
    ELSE IF IsDict(raw_doc) /\ PyIn("investigation_phases", raw_doc)
                            /\ PyIn("critical_assessments", raw_doc) THEN "report"
    ELSE IF IsList(raw_doc) THEN "list"
    ELSE IF IsDict(raw_doc) /\ PyIn("articles", raw_doc)
    THEN IF ~InDefined(raw_doc.f["articles"]) THEN "raise"
         ELSE IF PyIn("results", raw_doc.f["articles"]) THEN "articles" ELSE "item"
    ELSE IF IsDict(raw_doc) THEN "item"
    ELSE "unknown"

normalize_document(raw_doc, filename, valid_timestamp, report_id, now) ==
    LET kind == detect(raw_doc) IN
    CASE kind = "serp_api" -> normalize_serp_api_data(raw_doc, filename, report_id, now)
      [] kind = "telegram" -> normalize_telegram_osint_data(raw_doc, filename, report_id, now)
      [] kind = "report" -> normalize_comprehensive_report(raw_doc, filename, report_id, now)
      [] kind = "list" -> generic_items(raw_doc, filename, report_id, now)
      [] kind = "raise" -> Raises("TypeError")
      [] kind = "articles" ->
            IF ~IsDict(raw_doc.f["articles"]) THEN Raises("TypeError")
            ELSE generic_items(raw_doc.f["articles"].f["results"], filename,
                               report_id, now)
      [] kind = "item" -> generic_items(JList(<<raw_doc>>), filename, report_id, now)
      [] OTHER -> Returns(<<>>)

(***************************************************************************)
(* The reports directory the ingestor walks.                               *)
(***************************************************************************)
RESULT_A == JObj([k \in {"title", "link"} |->
                    IF k = "title" THEN JStr("t1") ELSE JStr("u1")])
MESSAGE_A == JObj([k \in {"id", "channel", "message"} |->
                    CASE k = "id" -> JNum(1)
                      [] k = "channel" -> JStr("c")
                      [] OTHER -> JStr("hello")])
SEARCH_PARAMETERS == JObj([k \in {"q"} |-> JStr("berlin")])

\* a SERP export with one organic result
SERP_EXPORT ==
    JObj([k \in {"search_parameters", "organic_results"} |->
            IF k = "search_parameters" THEN SEARCH_PARAMETERS
            ELSE JList(<<RESULT_A>>)])
\* a SERP export listing one result twice, carrying a Telegram key too
SERP_TWICE ==
    JObj([k \in {"search_parameters", "organic_results", "search_queries"} |->
            CASE k = "search_parameters" -> SEARCH_PARAMETERS
              [] k = "organic_results" -> JList(<<RESULT_A, RESULT_A>>)
              [] OTHER -> EmptyList])
\* a Telegram export with one message
TELEGRAM_EXPORT ==
    JObj([k \in {"search_queries", "messages"} |->
            IF k = "search_queries" THEN JList(<<JStr("berlin")>>)
            ELSE JList(<<MESSAGE_A>>)])
\* a Telegram export without messages
TELEGRAM_EMPTY == JObj([k \in {"channels_searched"} |-> EmptyList])
\* a comprehensive report
REPORT == JObj([k \in {"investigation_phases", "critical_assessments"} |-> EmptyObj])
\* a list of items
ITEM_LIST == JList(<<RESULT_A>>)
\* the wrapped "articles" object
ARTICLES == JObj([k \in {"articles"} |-> JObj([j \in {"results"} |-> JList(<<RESULT_A>>)])])
\* a single generic item
ITEM == JObj([k \in {"url", "title"} |-> IF k = "url" THEN JStr("u1") ELSE JStr("t1")])
\* an object whose "articles" field is a number
ARTICLES_NUMBER == JObj([k \in {"articles"} |-> JNum(5)])
\* a list whose elements are not objects
NUMBER_LIST == JList(<<JNum(5)>>)
\* a top-level string
TOP_STRING == JStr("x")
\* a SERP export whose search_parameters is a number
SERP_NUMBER ==
    JObj([k \in {"search_parameters", "organic_results"} |->
            IF k = "search_parameters" THEN JNum(5) ELSE EmptyList])

\* a comprehensive report that carries a Telegram key too
TELEGRAM_REPORT ==
    JObj([k \in {"investigation_phases", "critical_assessments",
                 "channels_searched"} |->
            IF k = "channels_searched" THEN EmptyList ELSE EmptyObj])
\* a list whose second element is not an object
MIXED_LIST == JList(<<RESULT_A, JNum(5)>>)

RECURSIVE message_string(_)
\* message.message as the string json.dump writes
message_string(words) ==
    IF words = <<>> THEN ""
    ELSE IF Len(words) = 1 THEN words[1]
    ELSE words[1] \o " " \o message_string(Tail(words))

\* all_results of search_telegram_recruitment as json.dump writes it and
\* json.load reads it back; the remaining keys are further constants and
\* counters no normalizer looks at
recruitment_export(all) ==
    JObj([k \in {"search_queries", "channels_searched", "messages"} |->
            CASE k = "search_queries" -> JList([q \in 1..NumQueries |-> JNum(q)])
              [] k = "channels_searched" -> JList([c \in 1..NumChannels |-> JNum(c)])
              [] OTHER ->
                   JList([i \in 1..Len(all) |->
                      JObj([j \in {"channel", "message_id", "text", "query"} |->
                         CASE j = "channel" -> JNum(all[i].channel)
                           [] j = "message_id" -> JNum(all[i].message_id)
                           [] j = "text" -> JStr(message_string(all[i].text))
                           [] OTHER -> JNum(all[i].query)])])])

\* the export of a run in which the first query on the first channel
\* returned messages 1 and 2
RECRUITMENT_EXPORT ==
    recruitment_export(recruitment_query_loop(<<1, 2>>, 1, 1, <<>>, <<>>).messages)

Payloads ==
    { SERP_EXPORT, SERP_TWICE, TELEGRAM_EXPORT, TELEGRAM_EMPTY, REPORT, ITEM_LIST,
      ARTICLES, ITEM, ARTICLES_NUMBER, NUMBER_LIST, TOP_STRING, SERP_NUMBER, Malformed,
      TELEGRAM_REPORT, MIXED_LIST, RECRUITMENT_EXPORT }

\* what the files after the first hold: exports that repeat the first
\* file's result record, or a different record
MorePayloads == { SERP_EXPORT, ITEM_LIST, TELEGRAM_EXPORT }

\* report directory names, split at "_"
REPORT_IDS == { <<"20260204", "110300", "berlin">>, <<"20260213", "142123", "berlin">> }

FILE_NAMES == <<"a.json", "b.json", "c.json", "d.json">>

\* directories of NumFiles files: the first file, of any content, lies in
\* the first report directory, each other file in either
Directories ==
    { [i \in 1..NumFiles |->
         [report_id |-> rs[i], name |-> FILE_NAMES[i], payload |-> ps[i]]] :
      rs \in { x \in [1..NumFiles -> REPORT_IDS] :
                 x[1] = <<"20260204", "110300", "berlin">> },
      ps \in { x \in [1..NumFiles -> Payloads] :
                 \A i \in 2..NumFiles : x[i] \in MorePayloads } }

\* os.path.join(root, file)
filepath(file) == <<file.report_id, "raw_data", file.name>>

index_prefix == "osint_"

\* f"{index_prefix}{report_ts}".lower(), report_ts being the first two parts
\* of the report id or, when it has fewer, the current time
index_name(report_id, now) ==
    IF Len(report_id) >= 2
    THEN [prefix |-> index_prefix, ts |-> <<report_id[1], report_id[2]>>, at |-> 0]
    ELSE [prefix |-> index_prefix, ts |-> <<"now">>, at |-> now]

\* the bulk op type of every action
op_type_index == "index"
op_type == "create"

\* json.load and normalize_document on one file
load_and_normalize(file, now) ==
    IF file.payload = Malformed THEN Raises("JSONDecodeError")
    ELSE normalize_document(file.payload, filepath(file),
                            index_name(file.report_id, now).ts, file.report_id, now)

\* the body of "for file in files" for one file: its bulk actions and what
\* it logs
process_file(file, now) ==
    LET r == load_and_normalize(file, now) IN
    [docs |-> [i \in 1..Len(r.docs) |->
                 [_index |-> index_name(file.report_id, now),
                  _id |-> r.docs[i]._id,
                  _op_type |-> op_type,
                  _source |-> [f \in DOMAIN r.docs[i] \ {"_id"} |-> r.docs[i][f]]]],
     log |-> IF r.exc # ""
             THEN <<[level |-> "ERROR", msg |-> "Failed to process",
                     file |-> filepath(file), exc |-> r.exc]>>
             ELSE IF file.payload # Malformed /\ detect(file.payload) = "unknown"
             THEN <<[level |-> "WARNING", msg |-> "Unknown JSON structure",
                     file |-> filepath(file)]>>
             ELSE <<>>]

RECURSIVE walk_stops_at_failure(_, _, _)
\* an os.walk loop that the first file failing to process ends
walk_stops_at_failure(files, i, now) ==
    IF i > Len(files)
    THEN [docs |-> <<>>, doc_file |-> <<>>, indices |-> {}, log |-> <<>>]
    ELSE LET p == process_file(files[i], now + i)
             rest == IF \E l \in 1..Len(p.log) : p.log[l].level = "ERROR"
                     THEN [docs |-> <<>>, doc_file |-> <<>>, indices |-> {},
                           log |-> <<>>]
                     ELSE walk_stops_at_failure(files, i + 1, now)
         IN [docs |-> p.docs \o rest.docs,
             doc_file |-> [j \in 1..Len(p.docs) |-> i] \o rest.doc_file,
             indices |-> {index_name(files[i].report_id, now + i)} \cup rest.indices,
             log |-> p.log \o rest.log]

RECURSIVE walk(_, _, _)
\* the os.walk loop from file i on: file i is read at time now + i
walk(files, i, now) ==
    IF i > Len(files)
    THEN [docs |-> <<>>, doc_file |-> <<>>, indices |-> {}, log |-> <<>>]
    ELSE LET p == process_file(files[i], now + i)
             rest == walk(files, i + 1, now)
         IN [docs |-> p.docs \o rest.docs,
             doc_file |-> [j \in 1..Len(p.docs) |-> i] \o rest.doc_file,
             indices |-> {index_name(files[i].report_id, now + i)} \cup rest.indices,
             log |-> p.log \o rest.log]

RECURSIVE SetToSeq(_)
\* "for x in a_set": some order
SetToSeq(S) ==
    IF S = {} THEN <<>>
    ELSE LET x == CHOOSE y \in S : TRUE IN <<x>> \o SetToSeq(S \ {x})

\* ensure_index_exists without the es.indices.exists test
ensure_index_exists_always_creates(mapping, indices, failing) ==
    [mapping |-> [n \in DOMAIN mapping \cup (indices \ failing) |->
                    IF n \in indices \ failing THEN "sop" ELSE mapping[n]],
     created |-> SetToSeq(indices \ failing),
     log |-> [i \in 1..Cardinality(failing) |->
                [level |-> "ERROR", msg |-> "Failed to create index",
                 index |-> SetToSeq(failing)[i]]]]

\* ensure_index_exists for every index of the run: an index that exists is
\* left alone, creating one either works or raises inside the try
ensure_index_exists(mapping, indices, failing) ==
    [mapping |-> [n \in DOMAIN mapping \cup (indices \ failing) |->
                    IF n \in DOMAIN mapping THEN mapping[n] ELSE "sop"],
     created |-> SetToSeq((indices \ failing) \ DOMAIN mapping),
     log |-> [i \in 1..Cardinality(failing) |->
                [level |-> "ERROR", msg |-> "Failed to create index",
                 index |-> SetToSeq(failing)[i]]]]

\* the per-item error helpers.bulk collects, keyed by the op type
bulk_error(a, status, type) ==
    [op |-> a._op_type, _index |-> a._index, _id |-> a._id, status |-> status,
     type |-> type, reason |-> <<type, a._id>>]

\* one bulk item in Elasticsearch: op "create" writes only when the id is
\* absent and answers 409 otherwise, op "index" writes over what is there
es_item(acc, a, fails) ==
    LET key == <<a._index, a._id>> IN
    IF fails
    THEN [acc EXCEPT !.errors = Append(@, bulk_error(a, 400, "mapper_parsing_exception"))]
    ELSE IF a._op_type = "create" /\ key \in DOMAIN acc.store
    THEN [acc EXCEPT !.errors = Append(@, bulk_error(a, 409, "version_conflict_engine_exception"))]
    ELSE [acc EXCEPT !.store = [k \in DOMAIN acc.store \cup {key} |->
                                   IF k = key THEN a._source ELSE acc.store[k]],
                     !.success = @ + 1]

RECURSIVE es_bulk(_, _, _, _)
\* the items of one bulk request, in order; those at the positions in bad
\* fail to persist
es_bulk(acc, actions, i, bad) ==
    IF i > Len(actions) THEN acc
    ELSE es_bulk(es_item(acc, actions[i], i \in bad), actions, i + 1, bad)

\* raise_on_error of the helpers.bulk call
raise_on_error_default == TRUE
raise_on_error == FALSE

\* helpers.bulk(es, docs_to_index, stats_only=False, raise_on_error=...):
\* Elasticsearch applies the request; with raise_on_error the helper raises
\* BulkIndexError when an item failed, else it returns (success, errors).
\* An outage fails the request as a whole.
helpers_bulk(store, actions, bad, outage) ==
    LET r == es_bulk([store |-> store, success |-> 0, errors |-> <<>>],
                     actions, 1, bad)
    IN IF outage
       THEN [store |-> store, raised |-> TRUE, success |-> 0, errors |-> <<>>]
       ELSE IF raise_on_error /\ r.errors # <<>>
       THEN [store |-> r.store, raised |-> TRUE, success |-> 0, errors |-> <<>>]
       ELSE [store |-> r.store, raised |-> FALSE, success |-> r.success,
             errors |-> r.errors]

\* how many errors the run logs one by one
ERRORS_LOGGED == 5

\* the key of the error dict under which the code looks for the item
ERROR_KEY == "index"

\* what ingest_directory logs after helpers.bulk returned or raised
bulk_log(r) ==
    IF r.raised
    THEN <<[level |-> "ERROR", msg |-> "Bulk ingestion failed"]>>
    ELSE IF r.errors = <<>>
    THEN <<[level |-> "INFO", msg |-> "Ingestion complete",
            success |-> r.success, failed |-> 0]>>
    ELSE <<[level |-> "ERROR", msg |-> "Bulk ingestion completed with errors",
            success |-> r.success, failed |-> Len(r.errors)]>>
         \o [i \in 1..Len(SelectSeq(SubSeq(r.errors, 1, Min(ERRORS_LOGGED, Len(r.errors))),
                                    LAMBDA e : e.op = ERROR_KEY)) |->
               LET e == SelectSeq(SubSeq(r.errors, 1, Min(ERRORS_LOGGED, Len(r.errors))),
                                  LAMBDA x : x.op = ERROR_KEY)[i]
               IN [level |-> "ERROR", msg |-> "Failed doc", id |-> e._id,
                   type |-> e.type, reason |-> e.reason]]
         \o (IF Len(r.errors) > ERRORS_LOGGED
             THEN <<[level |-> "ERROR", msg |-> "more errors",
                     more |-> Len(r.errors) - ERRORS_LOGGED]>>
             ELSE <<>>)

\* indices a bulk request creates on the fly: those it wrote to that did not
\* exist
auto_created(mapping, store) ==
    [n \in DOMAIN mapping \cup {k[1] : k \in DOMAIN store} |->
        IF n \in DOMAIN mapping THEN mapping[n] ELSE "dynamic"]

\* one run of ingest_elastic.py: main calls ingest_directory, which walks the
\* directory, ensures the indices, bulk-writes and logs the outcome
ingest_directory ==
    /\ ipc = "ready"
    /\ run < MaxRuns
    /\ \E w \in {walk(dir_files, 1, clock)} :
       \E failing \in SUBSET (w.indices \ DOMAIN es_mapping),
          bad \in SUBSET (1..Len(w.docs)),
          outage \in BOOLEAN :
         /\ es_failures + Cardinality(failing) + Cardinality(bad)
                + (IF outage THEN 1 ELSE 0) <= MaxEsFailures
         /\ (w.docs = <<>>) => (bad = {} /\ ~outage)
         /\ es_failures' = es_failures + Cardinality(failing) + Cardinality(bad)
                           + (IF outage THEN 1 ELSE 0)
         /\ docs_to_index' = w.docs
         /\ doc_file' = w.doc_file
         /\ indices_to_create' = w.indices
         /\ pre_store' = es_store
         /\ es_created' = es_created
                \o ensure_index_exists(es_mapping, w.indices, failing).created
         /\ \E ens \in {ensure_index_exists(es_mapping, w.indices, failing)},
               r \in {helpers_bulk(es_store, w.docs, bad, outage)} :
              IF w.docs = <<>>
              THEN /\ bulk' = NoBulk
                   /\ es_store' = es_store
                   /\ es_mapping' = ens.mapping
                   /\ log' = w.log \o ens.log
                             \o <<[level |-> "INFO", msg |-> "No documents found"]>>
                   /\ UNCHANGED <<success_total, submitted>>
              ELSE /\ bulk' = [called |-> TRUE, raised |-> r.raised,
                               success |-> r.success, errors |-> r.errors,
                               bad |-> bad, outage |-> outage]
                   /\ es_store' = r.store
                   /\ es_mapping' = auto_created(ens.mapping, r.store)
                   /\ log' = w.log \o ens.log \o bulk_log(r)
                   /\ success_total' = success_total + r.success
                   /\ submitted' = submitted \cup
                                   {w.docs[i] : i \in 1..Len(w.docs)}
    /\ run' = run + 1
    /\ clock' = clock + Len(dir_files) + 1
    /\ UNCHANGED <<ipc, dir_files, crawlVars, scoreVars, flatVars, extVars, orderVars>>

IngestInit ==
    /\ ipc = "ready"
    /\ dir_files \in Directories
    /\ IngestFresh

InitIngest == CrawlIdle /\ IngestInit /\ ScoreIdle /\ FlatIdle /\ ExtIdle /\ OrderIdle

NextIngest == ingest_directory

SpecIngest == InitIngest /\ [][NextIngest]_vars

(***************************************************************************)
(* Claims about the crawlers (specification Spec).                         *)
(***************************************************************************)
Count(msgs, id) == Cardinality({i \in 1..Len(msgs) : msgs[i].message_id = id})

\* ids some query of the running channel returned with non-empty text, in window
QueryReturnedOk ==
    {id \in MsgIds : /\ \E q \in ALL_QUERIES : <<id, q>> \in returned_by
                     /\ MESSAGES[id].text # <<>>
                     /\ InWindow(id)}

\* C1: in search_channel and search_channel_phones every (channel, message id)
\* is in the channel's message list at most once, and exactly once when some
\* query returned it with non-empty text inside the window, however many
\* queries or the history scan returned it.
C1_AdmittedOnce ==
    /\ \A id \in MsgIds : Count(channel_data.messages, id) <= 1
    /\ \A id \in QueryReturnedOk : Count(channel_data.messages, id) = 1
    /\ \A i \in 1..Len(results_channels) : \A id \in MsgIds :
            Count(results_channels[i].messages, id) <= 1

\* a message two queries and the history scan returned, admitted once
C1_Witness ==
    /\ script = "niemci"
    /\ pc = "channel_done"
    /\ \E id \in QueryReturnedOk :
        /\ Cardinality({src \in ALL_QUERIES \cup {HISTORY_SCAN} :
                            <<id, src>> \in returned_by}) >= 2
        /\ Count(channel_data.messages, id) = 1

\* C8 (the claim as stated): after a flood-wait answer to a query the crawler
\* sleeps the server's hint (FLOOD_SLEEP without one) and its next request is
\* the same query again.
C8_FloodRetried ==
    prev_req.outcome = "flood" =>
        /\ last_req.kind = "search"
        /\ last_req.q = prev_req.q
        /\ last_req.gap = IF prev_req.hint = 0 THEN FLOOD_SLEEP ELSE prev_req.hint

COURTESY_DELAY == Min(QUERY_SLEEP, HISTORY_SLEEP)

\* C9 (the claim as stated): every request of search_channel that follows
\* another one on the same channel is issued after at least the courtesy
\* delay, whatever the earlier request's outcome.
C9_CourtesyDelay ==
    (script = "niemci" /\ prev_req.kind # "none") => last_req.gap >= COURTESY_DELAY

RecordsOf(c) ==
    {i \in 1..Len(results_channels) : results_channels[i].channel = c}

\* C10: a channel whose resolution failed is recorded as inaccessible with an
\* error entry and no messages, is in the final per-channel summary, and the
\* channels after it are processed.
C10_InaccessibleRecorded ==
    script = "niemci" =>
        \A c \in resolve_failed :
            /\ \E i \in RecordsOf(c) :
                /\ results_channels[i].status = "inaccessible"
                /\ results_channels[i].errors # <<>>
                /\ results_channels[i].messages = <<>>
                /\ results_channels[i].total_messages = 0
            /\ pc = "done" =>
                /\ \E j \in 1..Len(summary) :
                    /\ summary[j].channel = c
                    /\ summary[j].status = "inaccessible"
                    /\ summary[j].total = 0
                /\ \A d \in TARGET_CHANNELS : d > c => RecordsOf(d) # {}
            /\ pc # "done" => \A d \in TARGET_CHANNELS : RecordsOf(d) # {} \/ d >= ci

\* the first channel failed to resolve, the second one was searched and has a
\* message, and the run has printed its summary
C10_Witness ==
    /\ script = "niemci"
    /\ pc = "done"
    /\ 1 \in resolve_failed
    /\ \E i \in RecordsOf(2) :
        /\ results_channels[i].status = "accessible"
        /\ results_channels[i].total_messages > 0

\* ids the history scan of the running channel was handed
HistoryReturned == {id \in MsgIds : <<id, HISTORY_SCAN>> \in returned_by}

\* C11: search_channel requests a history page only while no history page of
\* the channel has held a message dated before the window start, and no
\* message dated before the window start is in any channel's message list.
C11_StopsAtWindowStart ==
    script = "niemci" =>
        /\ pc = "history" => \A id \in HistoryReturned : MESSAGES[id].date >= 0
        /\ \A i \in 1..Len(channel_data.messages) :
             MESSAGES[channel_data.messages[i].message_id].date >= 0
        /\ \A c \in 1..Len(results_channels) :
             \A i \in 1..Len(results_channels[c].messages) :
                MESSAGES[results_channels[c].messages[i].message_id].date >= 0

\* a history page held a message older than the window, with text and not
\* seen before, after a message inside the window: the scan ended, the older
\* message is not in the list
C11_Witness ==
    /\ script = "niemci"
    /\ pc = "channel_done"
    /\ last_req.kind = "history" /\ last_req.outcome = "ok"
    /\ \E i, j \in 1..Len(history_page) :
         /\ i < j
         /\ MESSAGES[history_page[i]].date = 0
         /\ MESSAGES[history_page[j]].date < 0
         /\ MESSAGES[history_page[j]].text # <<>>
         /\ Count(channel_data.messages, history_page[j]) = 0

\* C12 (the claim as stated): the history scan of a channel ends only on an
\* empty page, on a page holding a message older than the window, or at the
\* page cap.
C12_ScansPastFirstPage ==
    (/\ script = "niemci"
     /\ pc = "channel_done"
     /\ last_req.kind = "history" /\ last_req.outcome = "ok")
    => \/ history_page = <<>>
       \/ \E i \in 1..Len(history_page) : MESSAGES[history_page[i]].date < 0
       \/ history_batch >= HISTORY_CAP

\* C16 (the claim as stated): the summary a finished run prints tells, per
\* channel, the status, the messages collected, the duplicates skipped and
\* the write failures.
C16_SummaryReports ==
    pc = "done" =>
        \A j \in 1..Len(summary) :
            {"channel", "status", "total", "duplicates_skipped", "write_failures"}
                \subseteq DOMAIN summary[j]

\* C19: the seen-set holds only ids of the running channel: every id in it
\* was returned by a request on this channel, whatever earlier channels
\* admitted, so an id admitted in an earlier channel is admitted here too
\* when a query returns it.
C19_SeenPerChannel ==
    /\ pc \in {"query", "history"} =>
         \A id \in seen_ids : \E src \in ALL_QUERIES \cup {HISTORY_SCAN} :
            <<id, src>> \in returned_by
    /\ \A i \in 1..Len(results_channels) :
         \A m \in 1..Len(results_channels[i].messages) :
            results_channels[i].messages[m].doc_id =
                compute_doc_id(results_channels[i].channel,
                               results_channels[i].messages[m].message_id)

\* the second channel admitted a message id the first channel's list holds
C19_Witness ==
    /\ ci = 2
    /\ pc = "channel_done"
    /\ Len(results_channels) = 2
    /\ \E id \in MsgIds :
         /\ Count(results_channels[1].messages, id) = 1
         /\ Count(results_channels[2].messages, id) = 1
         /\ results_channels[1].messages[1].doc_id # results_channels[2].messages[1].doc_id

\* C20: in search_channel classify_message is called at most once per
\* message id of a channel, on the query path and the history path alike, and
\* only on ids the seen-set holds from that call on.
C20_ClassifiedOnce ==
    script = "niemci" =>
        /\ \A i, j \in 1..Len(classified) : i # j => classified[i] # classified[j]
        /\ \A i \in 1..Len(classified) : classified[i] \in seen_ids

\* a message returned by a query and again by the history scan was
\* classified once, and the history scan classified a message it did not keep
C20_Witness ==
    /\ script = "niemci"
    /\ pc = "channel_done"
    /\ \E id \in MsgIds :
         /\ \E q \in ALL_QUERIES : <<id, q>> \in returned_by
         /\ <<id, HISTORY_SCAN>> \in returned_by
         /\ Cardinality({i \in 1..Len(classified) : classified[i] = id}) = 1

\* ids the last search request of the running channel returned
LastSearchReturned == {id \in MsgIds : <<id, last_req.q>> \in returned_by}

\* C22 (the claim as stated): a query whose request came back with a full
\* page is asked again for the page after it, so the request that follows is
\* for the same query.
C22_QueryPaginated ==
    (/\ last_req.kind = "search"
     /\ last_req.outcome = "ok"
     /\ Cardinality(LastSearchReturned) = MaxPageLen)
    => (pc = "query" /\ qi = last_req.q)

\* the messages of the history page the loop of search_channel got to: those
\* before the first unseen message with text that is older than the window
RECURSIVE HistoryReached(_, _)
HistoryReached(page, seen) ==
    IF page = <<>> THEN {}
    ELSE IF ~history_skips(seen, Head(page)) /\ past_window(Head(page)) THEN {}
    ELSE {Head(page)} \cup HistoryReached(Tail(page), seen)

\* ids a query of the running channel put into the list
AdmittedByQuery ==
    {channel_data.messages[i].message_id :
        i \in {j \in 1..Len(channel_data.messages) :
                  channel_data.messages[j].matched_query # HISTORY_SCAN}}

\* ids the history scan of the running channel put into the list
RetainedByHistory ==
    {channel_data.messages[i].message_id :
        i \in {j \in 1..Len(channel_data.messages) :
                  channel_data.messages[j].matched_query = HISTORY_SCAN}}

\* C24: after the history scan of search_channel, a message of the page the
\* loop got to that no query admitted, with text and inside the window, is
\* in the list if and only if its red_flag_score is above zero or its text
\* holds an always-relevant keyword; what the queries admitted is in the list
\* whatever its score.
C24_HistoryKeepsRelevant ==
    (/\ script = "niemci"
     /\ pc = "channel_done"
     /\ last_req.kind = "history" /\ last_req.outcome = "ok")
    => /\ \A id \in HistoryReached(history_page, AdmittedByQuery) :
            (/\ id \notin AdmittedByQuery
             /\ MESSAGES[id].text # <<>>
             /\ InWindow(id))
            => (id \in RetainedByHistory
                  <=> \/ classify_message(MESSAGES[id].text).red_flag_score > 0
                      \/ \E kw \in HISTORY_KEYWORDS :
                            Contains(MESSAGES[id].text, kw))
       /\ \A id \in MsgIds :
            (/\ \E q \in ALL_QUERIES : <<id, q>> \in returned_by
             /\ MESSAGES[id].text # <<>>
             /\ InWindow(id))
            => id \in AdmittedByQuery

\* the history scan met one message it kept and one it dropped, and a query
\* had admitted a message the history filter would drop
C24_Witness ==
    /\ script = "niemci"
    /\ pc = "channel_done"
    /\ last_req.kind = "history" /\ last_req.outcome = "ok"
    /\ 1 \in RetainedByHistory
    /\ 2 \in HistoryReached(history_page, AdmittedByQuery)
    /\ 2 \notin AdmittedByQuery
    /\ 2 \notin RetainedByHistory

\* C25 (the claim as stated): a search request that raised an error other
\* than a rate limit has left an entry in the channel's errors.
C25_ErrorRecorded ==
    (last_req.kind = "search" /\ last_req.outcome = "error")
    => \E i \in 1..Len(channel_data.errors) :
          channel_data.errors[i] = <<"Query", last_req.q>>

\* the requests of the given kind and query issued for the running channel
Issued(kind, q) ==
    Cardinality({i \in 1..Len(requests) : requests[i] = <<kind, q>>})

\* C29: for a channel search_channel issues at most one get_entity, at most
\* one search request per configured query, whether the request returned, hit
\* a rate limit or failed, and at most 20 history requests; so at most
\* 1 + NumQueries + 20 requests, after which the channel is done.
C29_RequestsBounded ==
    /\ Issued("resolve", 0) <= 1
    /\ \A q \in ALL_QUERIES : Issued("search", q) <= 1
    /\ Issued("history", 0) <= HISTORY_CAP
    /\ Len(requests) <= 1 + NumQueries + HISTORY_CAP
    /\ \A i \in 1..Len(requests) :
         requests[i] \in {<<"resolve", 0>>, <<"history", 0>>}
                         \cup {<<"search", q>> : q \in ALL_QUERIES}
    /\ pc = "channel_done" => Issued("resolve", 0) = 1

\* search_channel ended for a channel on which a query hit a rate limit: one
\* request for that query, one for every other query, one history request
C29_Witness ==
    /\ script = "niemci"
    /\ pc = "channel_done"
    /\ Issued("history", 0) = 1
    /\ \A q \in ALL_QUERIES : Issued("search", q) = 1
    /\ \E i \in 1..Len(channel_data.errors) : channel_data.errors[i] = <<"Query", 1>>
    /\ prev_req.outcome = "flood"

(***************************************************************************)
(* Claims about the ingestor (specification SpecIngest).                   *)
(***************************************************************************)
\* the Elasticsearch key of the i-th bulk action of the last run
Key(i) == <<docs_to_index[i]._index, docs_to_index[i]._id>>

\* the positions of the last bulk request that did not fail to persist
Sound == (1..Len(docs_to_index)) \ bulk.bad

\* C2: the _id of a Document is a function of its raw source record alone:
\* whenever two bulk actions, of one run or of different runs, from one file or
\* from different files and report directories, carry the same raw record,
\* they carry the same _id; and source_file of every Document is the path of
\* the file it was read from.
C2_IdFromRawRecord ==
    /\ \A a, b \in submitted :
         a._source.raw_source = b._source.raw_source => a._id = b._id
    /\ \A i \in 1..Len(docs_to_index) :
         docs_to_index[i]._source.source_file = filepath(dir_files[doc_file[i]])

\* the same record was normalized from two files of different name and report
\* directory, by different normalizers and at different times
C2_Witness ==
    \E a, b \in submitted :
        /\ a._source.raw_source = b._source.raw_source
        /\ a._source.source_file # b._source.source_file
        /\ a._source.report_id # b._source.report_id
        /\ a._source.source_type # b._source.source_type
        /\ a._source.timestamp # b._source.timestamp
        /\ a._id = b._id

\* C3: over any sequence of runs a stored document is never replaced or
\* removed, and the sum of the success counts never exceeds the number of
\* distinct (index, _id) pairs handed to the bulk helper.
C3_CreateIfAbsent ==
    [][ /\ \A k \in DOMAIN es_store :
             k \in DOMAIN es_store' /\ es_store'[k] = es_store[k]
        /\ success_total' <= Cardinality({<<a._index, a._id>> : a \in submitted'})
      ]_vars

\* a second run re-submitted stored documents in a batch that holds one hash
\* twice, and Elasticsearch answered with conflicts
C3_Witness ==
    /\ run = 2
    /\ bulk.called /\ ~bulk.raised
    /\ success_total > 0
    /\ \E i, j \in 1..Len(docs_to_index) : i < j /\ Key(i) = Key(j)
    /\ \E i \in 1..Len(bulk.errors) : bulk.errors[i].status = 409
    /\ \E i \in 1..Len(docs_to_index) :
         /\ Key(i) \in DOMAIN pre_store
         /\ docs_to_index[i]._source # pre_store[Key(i)]

\* C4: a bulk write that meets only documents already stored is a silent
\* skip: the run reports no failure and logs no error about the bulk write.
C4_DuplicateSilentSkip ==
    (/\ bulk.called /\ ~bulk.raised
     /\ \A i \in 1..Len(bulk.errors) : bulk.errors[i].status = 409)
    => \A j \in 1..Len(log) :
         log[j].msg \in {"Ingestion complete", "Bulk ingestion completed with errors"}
         => (log[j].level # "ERROR" /\ log[j].failed = 0)

\* C5: every per-document failure other than a duplicate is logged with the
\* document's id and the reason.
C5_FailureLogged ==
    (bulk.called /\ ~bulk.raised)
    => \A i \in 1..Len(bulk.errors) :
         bulk.errors[i].status # 409
         => \E j \in 1..Len(log) :
              /\ log[j].msg = "Failed doc"
              /\ log[j].id = bulk.errors[i]._id
              /\ log[j].reason = bulk.errors[i].reason

\* C6: when documents of a batch fail to persist, the bulk call still
\* returns, every other document of the batch is stored, each one not stored
\* before is counted as a success, and nothing stored before is lost.
C6_BatchNotAborted ==
    (bulk.called /\ ~bulk.outage /\ bulk.bad # {})
    => /\ ~bulk.raised
       /\ \A i \in Sound : Key(i) \in DOMAIN es_store
       /\ bulk.success = Cardinality({Key(i) : i \in Sound} \ DOMAIN pre_store)
       /\ Len(bulk.errors) = Len(docs_to_index) - bulk.success
       /\ \A k \in DOMAIN pre_store : k \in DOMAIN es_store /\ es_store[k] = pre_store[k]

\* one document of a batch failed and another one, not stored before, was
\* written and counted
C6_Witness ==
    /\ bulk.called /\ ~bulk.outage
    /\ Cardinality(bulk.bad) = 1
    /\ bulk.success >= 1
    /\ \E i \in Sound : Key(i) \notin DOMAIN pre_store /\ Key(i) \in DOMAIN es_store

\* C7: normalize_document raises on no well-formed JSON value: the only files
\* that fail to process are those json.load rejects.
C7_DetectionTotal ==
    \A j \in 1..Len(log) :
        log[j].msg = "Failed to process" => log[j].exc = "JSONDecodeError"

\* the run logged that creating index n failed
CreateFailed(n) ==
    \E l \in 1..Len(log) :
        /\ log[l].msg = "Failed to create index"
        /\ log[l].index = n

\* C13 (the claim as stated): a run in which creating an index failed hands
\* no document to helpers.bulk, so nothing is written to that index.
C13_CreateFailureFatal ==
    \A n \in indices_to_create :
        CreateFailed(n) =>
            /\ ~bulk.called
            /\ \A k \in DOMAIN es_store : k[1] # n

\* C14: over any sequence of runs, ensure_index_exists leaves an index that
\* exists and its mapping as they are, creates no index name twice, and is
\* called for every index a bulk action of the run names: each of them
\* exists after the run or its creation was logged as failed.
C14_EnsureIdempotent ==
    [][/\ \A n \in DOMAIN es_mapping :
            n \in DOMAIN es_mapping' /\ es_mapping'[n] = es_mapping[n]
       /\ \A i, j \in 1..Len(es_created') :
            i # j => es_created'[i] # es_created'[j]
       /\ \A i \in (Len(es_created) + 1)..Len(es_created') :
            es_created'[i] \notin DOMAIN es_mapping
       /\ \A i \in 1..Len(docs_to_index') :
            docs_to_index'[i]._index \in indices_to_create'
       /\ \A n \in indices_to_create' :
            \/ n \in DOMAIN es_mapping /\ es_mapping'[n] = es_mapping[n]
            \/ \E i \in (Len(es_created) + 1)..Len(es_created') :
                 es_created'[i] = n /\ es_mapping'[n] = "sop"
            \/ \E l \in 1..Len(log') :
                 log'[l].msg = "Failed to create index" /\ log'[l].index = n
      ]_vars

\* a second run over a directory whose indices the first run created: they
\* exist, nothing is created again
C14_Witness ==
    /\ run = 2
    /\ es_created # <<>>
    /\ indices_to_create # {}
    /\ \A n \in indices_to_create :
         /\ Cardinality({i \in 1..Len(es_created) : es_created[i] = n}) = 1
         /\ es_mapping[n] = "sop"
    /\ docs_to_index # <<>>

\* the positions in the last run's batch of the documents of file i
DocsOfFile(i) == {j \in 1..Len(docs_to_index) : doc_file[j] = i}

SourceTypes(i) == {docs_to_index[j]._source.source_type : j \in DocsOfFile(i)}

RawSources(i) == {docs_to_index[j]._source.raw_source : j \in DocsOfFile(i)}

\* the last run logged that file i failed to process
FailedToProcess(i) ==
    \E l \in 1..Len(log) :
        /\ log[l].msg = "Failed to process"
        /\ log[l].file = filepath(dir_files[i])

HasKey(p, k) == p.t = "obj" /\ k \in DOMAIN p.f

Items(v) == {v.items[j] : j \in 1..Len(v.items)}

\* C26: the documents of every file that was processed are those of the
\* first shape, in the stated order, that its payload has: search-engine
\* results, messaging-platform export, comprehensive report, list, nested
\* articles.results, single item.
C26_DetectionPriority ==
    run >= 1 =>
    \A i \in 1..Len(dir_files) :
        LET p == dir_files[i].payload IN
        (p # Malformed /\ ~FailedToProcess(i)) =>
            IF HasKey(p, "search_parameters") /\ HasKey(p, "organic_results")
            THEN /\ SourceTypes(i) \subseteq {"serp_api"}
                 /\ RawSources(i) = Items(p.f["organic_results"])
                 /\ Cardinality(DocsOfFile(i)) = Len(p.f["organic_results"].items)
            ELSE IF HasKey(p, "search_queries") \/ HasKey(p, "channels_searched")
            THEN /\ SourceTypes(i) = {"telegram"}
                 /\ RawSources(i) = IF HasKey(p, "messages")
                                    THEN Items(p.f["messages"]) ELSE {p}
            ELSE IF HasKey(p, "investigation_phases")
                    /\ HasKey(p, "critical_assessments")
            THEN /\ SourceTypes(i) = {"osint_report"}
                 /\ RawSources(i) = {p}
            ELSE IF p.t = "list"
            THEN /\ SourceTypes(i) \subseteq {"news", "web", "unknown"}
                 /\ RawSources(i) = Items(p)
                 /\ Cardinality(DocsOfFile(i)) = Len(p.items)
            ELSE IF HasKey(p, "articles") /\ HasKey(p.f["articles"], "results")
            THEN /\ SourceTypes(i) \subseteq {"news", "web", "unknown"}
                 /\ RawSources(i) = Items(p.f["articles"].f["results"])
            ELSE IF p.t = "obj"
            THEN /\ SourceTypes(i) \subseteq {"news", "web", "unknown"}
                 /\ RawSources(i) = {p}
            ELSE DocsOfFile(i) = {}

\* a search-engine export that carries a Telegram key was normalized as
\* search-engine results, next to a Telegram export normalized as messages
C26_Witness ==
    /\ run >= 1
    /\ dir_files[1].payload = SERP_TWICE
    /\ SourceTypes(1) = {"serp_api"}
    /\ Cardinality(DocsOfFile(1)) = 2
    /\ dir_files[2].payload = TELEGRAM_EXPORT
    /\ SourceTypes(2) = {"telegram"}

\* C28: after a run, a file that json.load rejects or whose normalization
\* raises has no document in the batch and an error in the log, a file of
\* unknown shape has none and a warning, every other file has all its
\* documents in the batch, and the batch was handed to helpers.bulk.
C28_FailedFileContributesNothing ==
    run >= 1 =>
    /\ \A i \in 1..Len(dir_files) :
         LET r == load_and_normalize(dir_files[i], 0) IN
         /\ r.exc # "" =>
              /\ DocsOfFile(i) = {}
              /\ \E l \in 1..Len(log) :
                   /\ log[l].msg = "Failed to process"
                   /\ log[l].level = "ERROR"
                   /\ log[l].file = filepath(dir_files[i])
         /\ r.exc = "" =>
              /\ Cardinality(DocsOfFile(i)) = Len(r.docs)
              /\ ~FailedToProcess(i)
              /\ RawSources(i) = {r.docs[j].raw_source : j \in 1..Len(r.docs)}
         /\ (r.exc = "" /\ dir_files[i].payload.t \notin {"obj", "list"}) =>
              \E l \in 1..Len(log) :
                   /\ log[l].msg = "Unknown JSON structure"
                   /\ log[l].file = filepath(dir_files[i])
    /\ docs_to_index # <<>> =>
         /\ bulk.called
         /\ \A j \in 1..Len(docs_to_index) : docs_to_index[j] \in submitted

\* the first file is a list whose normalization raises at its second item:
\* none of its items is in the batch, the file after it was normalized and
\* its document stored
C28_Witness ==
    /\ run >= 1
    /\ dir_files[1].payload = MIXED_LIST
    /\ FailedToProcess(1)
    /\ DocsOfFile(1) = {}
    /\ DocsOfFile(2) # {}
    /\ bulk.called /\ ~bulk.raised
    /\ \A j \in DocsOfFile(2) : Key(j) \in DOMAIN es_store

\* C30: after a run, a crawler export whose messages carry message_id and
\* text has one document per message, whose body is the message's text and
\* whose url holds the message's channel and id.
C30_ExportBodyAndUrl ==
    run >= 1 =>
    \A i \in 1..Len(dir_files) :
        LET p == dir_files[i].payload
            carried(m) == HasKey(m, "message_id") /\ HasKey(m, "text")
        IN
        (/\ HasKey(p, "search_queries")
         /\ HasKey(p, "messages")
         /\ p.f["messages"].t = "list"
         /\ \A m \in Items(p.f["messages"]) : carried(m)) =>
            /\ Cardinality(DocsOfFile(i)) = Len(p.f["messages"].items)
            /\ \A m \in Items(p.f["messages"]) :
                 \E j \in DocsOfFile(i) :
                    /\ docs_to_index[j]._source.raw_source = m
                    /\ docs_to_index[j]._source.body = m.f["text"]
                    /\ docs_to_index[j]._source.url =
                          telegram_url(m.f["channel"], m.f["message_id"])

(***************************************************************************)
(* Claims about the scoring functions (specification SpecScore).           *)
(***************************************************************************)
\* C17: relevance_score is at most 20 and red_flag_score at most 10, and
\* between two texts of which one matches every keyword the other matches,
\* the one matching more has the score that is not lower.
C17_ScoresCappedMonotone ==
    [][/\ scoring'.relevance_score <= RELEVANCE_CAP
       /\ classification'.red_flag_score <= RED_FLAG_CAP
       /\ scoring.indicators \subseteq scoring'.indicators
            => scoring.relevance_score <= scoring'.relevance_score
       /\ scoring'.indicators \subseteq scoring.indicators
            => scoring'.relevance_score <= scoring.relevance_score
       /\ classification.red_flags \subseteq classification'.red_flags
            => classification.red_flag_score <= classification'.red_flag_score
       /\ classification'.red_flags \subseteq classification.red_flags
            => classification'.red_flag_score <= classification.red_flag_score
      ]_vars

\* a text whose matches add up to more than 20 and that holds more than 10
\* red-flag keywords: both scores stand at their ceilings
C17_Witness ==
    /\ raw_score(score_text) > RELEVANCE_CAP
    /\ scoring.relevance_score = RELEVANCE_CAP
    /\ Cardinality(classification.red_flags) > RED_FLAG_CAP
    /\ classification.red_flag_score = RED_FLAG_CAP

\* C27 (the claim as stated): classify_message and score_message return a
\* result for every text, the empty one and None included.
C27_ClassifiersTotal ==
    /\ classify_outcome = "returned"
    /\ score_outcome = "returned"

(***************************************************************************)
(* Claims about the flat-list crawlers (specification SpecFlat).           *)
(***************************************************************************)
\* the records of results["messages"] for message id of channel c
FlatCount(c, id) ==
    Cardinality({i \in 1..Len(results_messages) :
                    /\ results_messages[i].channel = c
                    /\ results_messages[i].message_id = id})

\* C15 (the claim as stated): in results["messages"] the channels stand in
\* configured order and, within a channel, the query results in configured
\* query order come before the history-scan results.
C15_QueriesThenHistory ==
    \A i, j \in 1..Len(results_messages) :
        i < j =>
            /\ results_messages[i].channel <= results_messages[j].channel
            /\ results_messages[i].channel = results_messages[j].channel =>
                 /\ results_messages[i].query = HISTORY_SCAN
                      => results_messages[j].query = HISTORY_SCAN
                 /\ (/\ results_messages[i].query # HISTORY_SCAN
                     /\ results_messages[j].query # HISTORY_SCAN)
                      => results_messages[i].query <= results_messages[j].query

\* C18 (the claim as stated): a message inside the window that two different
\* queries of a channel returned to search_telegram_recruitment is in
\* results["messages"] exactly once for that channel.
C18_AddedOncePerChannelAndId ==
    flat_script = "recruitment" =>
        \A c \in TARGET_CHANNELS, id \in MsgIds :
            (/\ InWindow(id)
             /\ \E q1, q2 \in ALL_QUERIES :
                  /\ q1 # q2
                  /\ <<c, id, q1>> \in flat_returned
                  /\ <<c, id, q2>> \in flat_returned)
            => FlatCount(c, id) = 1

(***************************************************************************)
(* Claims about search_niemci_extended (specification SpecExt).            *)
(***************************************************************************)
\* C23: once a page has been answered whose oldest (last) message is dated
\* before the window start, the history loop requests no further page.
C23_StopsBeforeWindow ==
    (x_page # <<>> /\ MESSAGES[x_page[Len(x_page)]].date = -1) => xpc # "history"

(***************************************************************************)
(* Claims about the query order (specification SpecOrder).                 *)
(***************************************************************************)
IdsOf(msgs) == {msgs[i].message_id : i \in 1..Len(msgs)}

\* the configured order
ConfiguredOrder == [i \in 1..NumQueries |-> i]

\* the positions in o_order of the queries whose answer held the message
ReturnedAt(id) ==
    {k \in 1..NumQueries :
        /\ o_answers[o_order[k]].ok
        /\ \E i \in 1..Len(o_answers[o_order[k]].messages) :
              o_answers[o_order[k]].messages[i] = id}

\* C21: whatever order the queries are listed in, the returned list holds
\* the messages the configured order gives, each once, and the
\* matched_query of a message some query returned is the first query of
\* the order that returned it.
C21_OrderKeepsMembership ==
    opc = "done" =>
        /\ IdsOf(o_messages) =
              IdsOf(search_channel_messages(ConfiguredOrder, o_answers,
                                            o_history, 1))
        /\ Cardinality(IdsOf(o_messages)) = Len(o_messages)
        /\ \A i \in 1..Len(o_messages) :
              LET at == ReturnedAt(o_messages[i].message_id) IN
              IF at = {} THEN o_messages[i].matched_query = HISTORY_SCAN
              ELSE \E k \in at :
                      /\ \A l \in at : k <= l
                      /\ o_messages[i].matched_query = o_order[k]

\* the queries were listed in another order and a message both of them
\* returned is recorded under another query than in the configured order
C21_Witness ==
    /\ opc = "done"
    /\ o_order # ConfiguredOrder
    /\ \E i \in 1..Len(o_messages) :
          LET base == search_channel_messages(ConfiguredOrder, o_answers,
                                              o_history, 1)
          IN \E j \in 1..Len(base) :
                /\ base[j].message_id = o_messages[i].message_id
                /\ base[j].matched_query # o_messages[i].matched_query


====
